---- MODULE Spec2Model ----
(***************************************************************************)
(* Model of the pydra engine core: the content-addressed cache of          *)
(* engine/helpers.py (load_result, save, record_error) and the node /      *)
(* workflow layer of engine/node.py (splitters, needed outputs, input      *)
(* gathering, element runs).                                               *)
(*                                                                         *)
(* Three specifications share the variables:                               *)
(*   SpecSave  callers of the cache helpers, with any arguments, running   *)
(*             concurrently on one file system (helpers.py takes no lock); *)
(*   SpecRun   executors that run elements under the write discipline of   *)
(*             the task runner (cache check, mkdir, lock, snapshot, body,  *)
(*             result or error, unlock), with lock-free readers;           *)
(*   SpecNode  a workflow of nodes stepped element by element.             *)
(***************************************************************************)
EXTENDS Integers, Sequences, FiniteSets, TLC

\* ------------------------------------------------------------------ bounds

\* number of cache roots
NRoots == 2
\* largest pickle, counted in buffer flushes of the file object
MaxChunks == 2
\* calls of save / record_error started in one behaviour of SpecSave
MaxCalls == 2
\* element runs started in one behaviour of SpecRun
MaxRuns == 3
\* longest input sequence bound to a field
MaxLen == 2
\* preparing calls in one behaviour of SpecNode
MaxPrep == 2

\* ------------------------------------------------------------ cache: data

Procs == {"p1", "p2"}
Roots == 1..NRoots
Checksums == {"ck1", "ck2"}
Paths == Roots \X Checksums

\* every value a helper returns or raises is a pair <<kind, n>>
None == <<"None", 0>>
Running == <<"running", 0>>
ValueError == <<"ValueError", 0>>
FileNotFoundError == <<"FileNotFoundError", 0>>
UnpicklingError == <<"UnpicklingError", 0>>

\* a file that does not exist; an existing file holds a sequence of chunks
NoFile == [exists |-> FALSE, bytes |-> <<>>]
Hole == <<<<"hole", 0>>, 0>>

RESULT == "_result.pklz"
TASK == "_task.pklz"
ERROR == "_error.pklz"
FileNames == {RESULT, TASK, ERROR}

\* A picklable object is <<kind, n>>; a result <<"result", n>> pickles to n
\* chunks (one chunk per flush of the buffered file), a task snapshot and an
\* error to one.
Results == {<<"result", n>> : n \in 1..MaxChunks}
TaskObj == <<"task", 1>>
ErrorObj == <<"error", 1>>
Chunks(obj) == obj[2]

\* cp.dump(obj, fp): flush number k of obj's pickle
Chunk(obj, k) == <<obj, k>>

\* cp.loads(bytes): the object whose whole pickle is a prefix of the bytes
\* (bytes after the STOP opcode are ignored), otherwise an unpickling error.
Loads(bytes) ==
    LET obj == bytes[1][1]
    IN  IF /\ bytes[1] \in (Results \cup {TaskObj, ErrorObj}) \X (1..(MaxChunks + 1))
           /\ Len(bytes) >= Chunks(obj)
           /\ \A k \in 1..Chunks(obj) : bytes[k] = Chunk(obj, k)
        THEN obj
        ELSE UnpicklingError

\* the ordered lists of cache roots handed to load_result
RECURSIVE SeqsUpTo(_, _)
SeqsUpTo(S, n) ==
    IF n = 0 THEN {<<>>}
    ELSE LET shorter == SeqsUpTo(S, n - 1)
         IN  shorter \cup {Append(s, x) : s \in {t \in shorter : Len(t) = n - 1}, x \in S}
LocationLists == SeqsUpTo(Roots, NRoots)

EmptyDir == [exists |-> FALSE, files |-> [f \in FileNames |-> NoFile]]

VARIABLES
    fs,        \* fs[<<root, checksum>>]: the directory root/checksum and its files
    pc,        \* pc[p]: where process p stands inside save / record_error
    call,      \* call[p]: the arguments of p's current (or last) helper call
    off,       \* off[p]: the position of p's open file object, in chunks
    written,   \* written[p]: the files p's current call has written and closed
    ret,       \* ret[p]: what p's last helper call returned or raised
    loaded,    \* the last load_result call of the reader: arguments and outcome
    ncalls,    \* save / record_error calls started so far

    run,       \* run[p]: the element run process p is in, or was last in
    lock,      \* lock[path]: the holder of the write lock of a directory
    nruns,     \* element runs started so far
    inputs,         \* inputs[key]: the values bound to an input field of a node
    state_inputs,   \* state_inputs[n]: the names in n.state_inputs
    splitter,       \* splitter[n]: NodeBase._splitter
    combiner,       \* combiner[n]: NodeBase._combiner
    connected_var,  \* connected_var[n]: the edges into n, in insertion order
    needed_outputs, \* needed_outputs[n]: NodeBase._needed_outputs
    ready2run_attr, \* ready2run_attr[n]: what the name n.ready2run is bound to
    is_complete,    \* is_complete[n]: NodeBase._is_complete
    results_dict,   \* results_dict[n]: directory name -> result of the element
    split_arg,      \* split_arg[n]: the expression of the last split call on n that succeeded
    last_combine,   \* the last combine call: node, whether it had a splitter, outcome
    last_prep,      \* preparing calls so far, and whether the last one raised
    output,         \* output[n]: n._output["out"] and how the last get_output ended
    run_order,      \* the elements of A in the order they were run and stored
    node_names,     \* the names in Workflow._node_names: the nodes added
    graph,          \* the edges <<from_node, to_node>> of Workflow.graph
    needed_inp_wf,  \* Workflow.needed_inp_wf
    wf_output_names, \* Workflow.wf_output_names
    wf_output,      \* the keys of the workflow's _output and how the last get_output ended
    last_add,       \* the last Workflow.add call: number, node, edge keywords, outcome
    node_splitters, \* node_splitters[n]: Workflow._node_splitters, NoSplitter for no entry
    last_added,     \* Workflow._last_added, "" before it is assigned
    last_split_node, \* the last Workflow.split_node call: number, child, outcome
    wf_is_complete, \* the workflow's _is_complete
    inner_nodes,    \* inner_nodes[n]: whether n has clones, and what is_complete gives on each
    last_wf_check,  \* the last Workflow._check_all_results call: number, outcome
    class_name,     \* class_name[n]: n.__class__.__name__
    inputs_hash,    \* inputs_hash[n]: n.inputs.hash
    node_checksum,  \* node_checksum[n]: what n.checksum returned last
    scripts,        \* scripts[<<path, checksum>>]: the file pyscript_<checksum>.py of a directory
    last_script,    \* the last create_pyscript call: number, arguments, outcome
    name_dict,      \* a surviving state dictionary: <<name, value>> in insertion order
    name_str,       \* the directory name built from name_dict
    name_parsed     \* what _state_str_to_dict made of name_str

cacheVars == <<fs, pc, call, off, written, ret, loaded, ncalls>>
runVars == <<run, lock, nruns>>
sumVars == <<class_name, inputs_hash, node_checksum>>
splitNodeVars == <<node_splitters, last_added, last_split_node>>
doneVars == <<wf_is_complete, inner_nodes, last_wf_check>>
scriptVars == <<scripts, last_script>>
nameVars == <<name_dict, name_str, name_parsed>>
wfVars == <<node_names, graph, needed_inp_wf, wf_output_names, wf_output, last_add,
            sumVars, scriptVars, nameVars, splitNodeVars, doneVars>>
nodeVars == <<inputs, state_inputs, splitter, combiner, connected_var, needed_outputs,
              ready2run_attr, is_complete, results_dict, split_arg, last_combine,
              last_prep, output, run_order, wfVars>>



\* ------------------------------------------------------------ nodes: data

\* The workflow holds three children: the Nodes A and B and the sub-workflow W.
Nodes == {"A", "B", "W"}
is_node(obj) == obj \in {"A", "B"}
graph_sorted == SelectSeq(<<"A", "W", "B">>, LAMBDA n : n \in node_names)

\* the input fields a node binds itself; B's inputs x, y come over edges
FieldsOf(n) == CASE n = "A" -> {"a", "b"} [] n = "W" -> {"w"} [] OTHER -> {}
\* a variable name is <<node, field>>, i.e. "node.field"; <<"", field>> is the
\* unqualified "field"
Keys == {<<"A", "a">>, <<"A", "b">>, <<"W", "w">>}
\* the names in sorted order
KeyOrder == << <<"A", "a">>, <<"A", "b">>, <<"W", "w">> >>
Vals == {1, 2}
\* the sequences a field is bound to, up to a renaming of the values
InputSeqs == {s \in SeqsUpTo(Vals, MaxLen) \ {<<>>} : s[1] = 1}
\* the value of inputs[key] for a field that was not bound
Unbound == <<>>

\* a splitter: None, one variable, the outer product of two variables, or
\* (left by the state property) a list of node names
NoSplitter == [op |-> "none", args |-> <<>>]
LeafSplitter(leaf) == [op |-> "leaf", args |-> <<leaf>>]
\* the outer product left x right of two variables
OuterSplitter(left, right) == [op |-> "outer", args |-> <<left, right>>]
NamesSplitter(names) == [op |-> "names", args |-> [i \in 1..Len(names) |-> <<names[i], "">>]]
\* the expressions split is called with: on A a field of the node, with or
\* without the node's name; on W its field; on B, which binds no field, a
\* variable of the upstream node A
SplitArgs(n) ==
    CASE n = "A" -> {LeafSplitter(<<q, f>>) : q \in {"", n}, f \in FieldsOf(n)}
      [] n = "B" -> {LeafSplitter(<<"A", f>>) : f \in FieldsOf("A")}
      [] OTHER -> {LeafSplitter(<<"", f>>) : f \in FieldsOf(n)}

\* the field out of a result's output: missing from the record, a falsy
\* value, a truthy value
NoField == -1
OutVals == {NoField, 0, 1}

Range(seq) == {seq[i] : i \in 1..Len(seq)}

\* the multi-indices of up to as many axes as a node has fields
Indices == SeqsUpTo(0..(MaxLen - 1), Cardinality(FieldsOf("A")))
\* the order of itertools.product over ranges: lexicographic, axes ascending
LexLess(i, j) ==
    \E k \in 1..Len(i) : i[k] < j[k] /\ \A m \in 1..(k - 1) : i[m] = j[m]

\* aux.change_splitter(splitter, name): every unqualified name gets the node's
\* name, a qualified one stays; None stays None
change_names(names, name) ==
    [i \in 1..Len(names) |->
        IF names[i][1] = "" THEN <<name, names[i][2]>> ELSE names[i]]
change_splitter(sp, name) ==
    IF sp = NoSplitter THEN NoSplitter
    ELSE [op |-> sp.op, args |-> change_names(sp.args, name)]

NoPrep == [count |-> 0, raised |-> FALSE, cause |-> "", wf_inputs |-> {}]
NoCombine == [node |-> "", had_splitter |-> FALSE, raised |-> FALSE]
\* _output before any get_output call
NoOutput == [ret |-> "none", value |-> <<>>]

\* Workflow.add before any call, the workflow's _output before get_output
NoAdd == [seq |-> 0, node |-> "", kwargs |-> <<>>, raised |-> ""]
NoWfOutput == [ret |-> "none", keys |-> <<>>]

\* a string is the sequence of its characters
\* class names, which are identifiers and may hold an underscore
ClassNames == {<<"N">>, <<"N", "a">>, <<"N", "_", "a">>}
\* input hashes: hexadecimal digests
InputHashes == {<<"a">>, <<"0">>, <<"a", "a">>, <<"a", "0">>, <<"0", "a">>}
\* the checksum property was not read
NoChecksum == <<>>
\* Workflow.split_node before any call; _node_splitters empty and
\* _last_added not assigned
NoSplitNode == [seq |-> 0, node |-> "", raised |-> ""]
SplitNodeUnused ==
    /\ node_splitters = [n \in Nodes |-> NoSplitter]
    /\ last_added = ""
    /\ last_split_node = NoSplitNode

\* a child without clones; Workflow._check_all_results before any call
NoClones == [present |-> FALSE, clones |-> <<>>]
NoWfCheck == [seq |-> 0, ret |-> "none"]
WfUnchecked ==
    /\ wf_is_complete = FALSE
    /\ inner_nodes = [n \in Nodes |-> NoClones]
    /\ last_wf_check = NoWfCheck

\* no directory name built, nothing parsed
NoName == [built |-> FALSE, str |-> <<>>]
NotParsed == [ret |-> "none", value |-> <<>>]
NamesUnused ==
    /\ name_dict = <<>>
    /\ name_str = NoName
    /\ name_parsed = NotParsed

\* no script file, no create_pyscript call
NoScript == "none"
NoPyscript == [seq |-> 0, script_path |-> <<0, "">>, checksum |-> "", ret |-> "none"]
\* the checksums and scripts at rest, for the specifications that do not use them
SumUnused ==
    /\ NamesUnused
    /\ scripts = [k \in Paths \X Checksums |-> NoScript]
    /\ last_script = NoPyscript
    /\ class_name = [n \in Nodes |-> <<"N">>]
    /\ inputs_hash = [n \in Nodes |-> <<"a">>]
    /\ node_checksum = [n \in Nodes |-> NoChecksum]

\* the workflow once its nodes are added and connected as connected_var
\* says, with no inputs or outputs of its own
WfBuilt ==
    /\ node_names = Nodes
    /\ graph = {e \in Nodes \X Nodes :
                    \E i \in 1..Len(connected_var[e[2]]) : connected_var[e[2]][i][2] = e[1]}
    /\ needed_inp_wf = <<>>
    /\ wf_output_names = <<>>
    /\ wf_output = NoWfOutput
    /\ last_add = NoAdd
    /\ SplitNodeUnused
    /\ WfUnchecked
    /\ SumUnused

\* the node layer at rest, for the specifications of the cache
NodesUnused ==
    /\ inputs = [k \in Keys |-> <<1>>]
    /\ state_inputs = [n \in Nodes |-> {}]
    /\ splitter = [n \in Nodes |-> NoSplitter]
    /\ combiner = [n \in Nodes |-> <<>>]
    /\ connected_var = [n \in Nodes |-> <<>>]
    /\ needed_outputs = [n \in Nodes |-> <<>>]
    /\ ready2run_attr = [n \in Nodes |-> "method"]
    /\ is_complete = [n \in Nodes |-> FALSE]
    /\ results_dict = [n \in Nodes |-> {}]
    /\ split_arg = [n \in Nodes |-> NoSplitter]
    /\ last_combine = NoCombine
    /\ last_prep = NoPrep
    /\ output = [n \in Nodes |-> NoOutput]
    /\ run_order = <<>>
    /\ WfBuilt

NoCall == [op |-> "none"]
Free == "free"
NoRun == [stage |-> "idle", checksum |-> "", rerun |-> FALSE, cached |-> FALSE,
          invoked |-> FALSE, raised |-> FALSE, out |-> None]
NoLoad == [checksum |-> "", cache_locations |-> <<>>, ret |-> None]

\* ------------------------------------------------------ cache: load_result

\* helpers.py load_result, the loop over cache_locations from position i
RECURSIVE load_result_from(_, _, _)
load_result_from(checksum, cache_locations, i) ==
    IF i > Len(cache_locations) THEN None
    ELSE LET dir == fs[<<cache_locations[i], checksum>>]
             result_file == dir.files[RESULT]
         IN  IF dir.exists
             THEN IF result_file.exists /\ Len(result_file.bytes) > 0
                  THEN Loads(result_file.bytes)
                  ELSE None
             ELSE load_result_from(checksum, cache_locations, i + 1)

LoadResultNoStop(checksum, cache_locations) ==
    LET full == {i \in 1..Len(cache_locations) :
                    LET f == fs[<<cache_locations[i], checksum>>].files[RESULT]
                    IN  f.exists /\ Len(f.bytes) > 0}
    IN  IF full = {} THEN None
        ELSE LET i == CHOOSE j \in full : \A k \in full : j <= k
             IN  Loads(fs[<<cache_locations[i], checksum>>].files[RESULT].bytes)

LoadResultFirstOnly(checksum, cache_locations) ==
    IF cache_locations = <<>> THEN None
    ELSE load_result_from(checksum, <<cache_locations[1]>>, 1)

load_result(checksum, cache_locations) ==
    IF cache_locations = <<>> THEN None
    ELSE load_result_from(checksum, cache_locations, 1)

\* ------------------------------------------------- cache: save, record_error

\* open(name, "wb"): the file exists and is empty
Truncate(path, name) ==
    [fs EXCEPT ![path].files[name] = [exists |-> TRUE, bytes |-> <<>>]]

\* a write of chunk c at position o of a file (a position past the end leaves
\* a hole, as a concurrent truncation by another writer does)
WriteAt(bytes, o, c) ==
    IF o < Len(bytes) THEN [bytes EXCEPT ![o + 1] = c]
    ELSE bytes \o [i \in 1..(o - Len(bytes)) |-> Hole] \o <<c>>

\* a save that makes the directory before it looks at its arguments
SaveCallMkdirFirst(p, task_path, result, task) ==
    /\ pc[p] = "idle"
    /\ call' = [call EXCEPT ![p] = [op |-> "save", path |-> task_path,
                                    result |-> result, task |-> task]]
    /\ written' = [written EXCEPT ![p] = <<>>]
    /\ off' = [off EXCEPT ![p] = 0]
    /\ fs' = [fs EXCEPT ![task_path].exists = TRUE]
    /\ IF task = None /\ result = None
       THEN /\ ret' = [ret EXCEPT ![p] = ValueError]
            /\ UNCHANGED pc
       ELSE /\ pc' = [pc EXCEPT ![p] = IF result # None THEN "open_result" ELSE "open_task"]
            /\ ret' = [ret EXCEPT ![p] = Running]

\* save(task_path, result, task), lines 110-112: the argument check and mkdir
SaveCall(p, task_path, result, task) ==
    /\ pc[p] = "idle"
    /\ call' = [call EXCEPT ![p] = [op |-> "save", path |-> task_path,
                                    result |-> result, task |-> task]]
    /\ written' = [written EXCEPT ![p] = <<>>]
    /\ off' = [off EXCEPT ![p] = 0]
    /\ IF task = None /\ result = None
       THEN /\ ret' = [ret EXCEPT ![p] = ValueError]
            /\ UNCHANGED <<fs, pc>>
       ELSE /\ fs' = [fs EXCEPT ![task_path].exists = TRUE]
            /\ pc' = [pc EXCEPT ![p] = IF result # None THEN "open_result" ELSE "open_task"]
            /\ ret' = [ret EXCEPT ![p] = Running]

\* save, line 114: open _result.pklz for writing
SaveOpenResult(p) ==
    /\ pc[p] = "open_result"
    /\ fs' = Truncate(call[p].path, RESULT)
    /\ off' = [off EXCEPT ![p] = 0]
    /\ pc' = [pc EXCEPT ![p] = "dump_result"]
    /\ UNCHANGED <<call, written, ret, loaded, ncalls, runVars, nodeVars>>

\* save, line 117: open _task.pklz for writing
SaveOpenTask(p) ==
    /\ pc[p] = "open_task"
    /\ fs' = Truncate(call[p].path, TASK)
    /\ off' = [off EXCEPT ![p] = 0]
    /\ pc' = [pc EXCEPT ![p] = "dump_task"]
    /\ UNCHANGED <<call, written, ret, loaded, ncalls, runVars, nodeVars>>

\* what p is dumping, into which file, and where the call goes next
DumpObj(p) ==
    CASE pc[p] = "dump_result" -> call[p].result
      [] pc[p] = "dump_task" -> call[p].task
      [] pc[p] = "dump_error" -> call[p].error
DumpFile(p) ==
    CASE pc[p] = "dump_result" -> RESULT
      [] pc[p] = "dump_task" -> TASK
      [] pc[p] = "dump_error" -> ERROR
AfterDump(p) ==
    IF pc[p] = "dump_result" /\ call[p].task # None THEN "open_task" ELSE "idle"

\* cp.dump(obj, fp) and the close of the with block: one flush per step, the
\* last one at close
Flush(p) ==
    /\ pc[p] \in {"dump_result", "dump_task", "dump_error"}
    /\ LET obj == DumpObj(p)
           name == DumpFile(p)
           path == call[p].path
           last == off[p] + 1 = Chunks(obj)
       IN  /\ fs' = [fs EXCEPT ![path].files[name].bytes =
                        WriteAt(@, off[p], Chunk(obj, off[p] + 1))]
           /\ off' = [off EXCEPT ![p] = IF last THEN 0 ELSE @ + 1]
           /\ written' = [written EXCEPT ![p] = IF last THEN Append(@, name) ELSE @]
           /\ pc' = [pc EXCEPT ![p] = IF last THEN AfterDump(p) ELSE @]
           /\ ret' = [ret EXCEPT ![p] = IF last /\ AfterDump(p) = "idle" THEN None ELSE @]
    /\ UNCHANGED <<call, loaded, ncalls, runVars, nodeVars>>

RecordErrorElsewhere(p, error_path, error) ==
    /\ pc[p] = "idle"
    /\ call' = [call EXCEPT ![p] = [op |-> "record_error", path |-> error_path,
                                    error |-> error]]
    /\ written' = [written EXCEPT ![p] = <<>>]
    /\ off' = [off EXCEPT ![p] = 0]
    /\ ret' = [ret EXCEPT ![p] = None]
    /\ UNCHANGED <<fs, pc>>

\* record_error(error_path, error), line 323: open _error.pklz for writing
RecordErrorCall(p, error_path, error) ==
    /\ pc[p] = "idle"
    /\ call' = [call EXCEPT ![p] = [op |-> "record_error", path |-> error_path,
                                    error |-> error]]
    /\ written' = [written EXCEPT ![p] = <<>>]
    /\ off' = [off EXCEPT ![p] = 0]
    /\ IF fs[error_path].exists
       THEN /\ fs' = Truncate(error_path, ERROR)
            /\ pc' = [pc EXCEPT ![p] = "dump_error"]
            /\ ret' = [ret EXCEPT ![p] = Running]
       ELSE /\ ret' = [ret EXCEPT ![p] = FileNotFoundError]
            /\ UNCHANGED <<fs, pc>>

\* a reader's call of load_result(checksum, cache_locations); it takes no lock
LoadCall(checksum, cache_locations) ==
    /\ loaded' = [checksum |-> checksum, cache_locations |-> cache_locations,
                  ret |-> load_result(checksum, cache_locations)]
    /\ UNCHANGED <<fs, pc, call, off, written, ret, ncalls, runVars, nodeVars>>

\* ------------------------------------------------------------- SpecSave

SaveInit ==
    /\ NodesUnused
    /\ run = [p \in Procs |-> NoRun]
    /\ lock = [path \in Paths |-> Free]
    /\ nruns = 0
    /\ fs = [path \in Paths |-> EmptyDir]
    /\ pc = [p \in Procs |-> "idle"]
    /\ call = [p \in Procs |-> NoCall]
    /\ off = [p \in Procs |-> 0]
    /\ written = [p \in Procs |-> <<>>]
    /\ ret = [p \in Procs |-> None]
    /\ loaded = NoLoad
    /\ ncalls = 0

ApiSave ==
    \E p \in Procs, path \in Paths, result \in Results \cup {None},
       task \in {TaskObj, None} :
        /\ ncalls < MaxCalls
        /\ ncalls' = ncalls + 1
        /\ SaveCall(p, path, result, task)
        /\ UNCHANGED <<loaded, runVars, nodeVars>>

ApiRecordError ==
    \E p \in Procs, path \in Paths :
        /\ ncalls < MaxCalls
        /\ ncalls' = ncalls + 1
        /\ RecordErrorCall(p, path, ErrorObj)
        /\ UNCHANGED <<loaded, runVars, nodeVars>>

ApiLoad ==
    \E checksum \in Checksums, locs \in LocationLists :
        LoadCall(checksum, locs)

StepOpenResult == \E p \in Procs : SaveOpenResult(p)
StepOpenTask == \E p \in Procs : SaveOpenTask(p)
StepFlush == \E p \in Procs : Flush(p)

SaveNext ==
    \/ ApiSave
    \/ ApiRecordError
    \/ ApiLoad
    \/ StepOpenResult
    \/ StepOpenTask
    \/ StepFlush

SpecSave == SaveInit /\ [][SaveNext]_<<cacheVars, runVars, nodeVars>>


\* ------------------------------------------------------ claims: SpecSave

Complete(file, obj) ==
    file.exists /\ file.bytes = [k \in 1..Chunks(obj) |-> Chunk(obj, k)]

\* what the first root holding the checksum directory decides
FirstHolderDecides(checksum, locs) ==
    LET holders == {i \in 1..Len(locs) : fs[<<locs[i], checksum>>].exists}
    IN  IF holders = {} THEN None
        ELSE LET first == CHOOSE i \in holders : \A j \in holders : i <= j
                 file == fs[<<locs[first], checksum>>].files[RESULT]
             IN  IF file.exists /\ file.bytes # <<>> THEN Loads(file.bytes) ELSE None

\* C1: for every ordered list of cache roots load_result decides from the
\* first root that contains the checksum directory: that root's stored result
\* when its _result file exists and is non-empty, none otherwise, whatever
\* later roots hold; none when no root holds the directory or the list is empty.
C1_FirstRootDecides ==
    \A checksum \in Checksums, locs \in LocationLists :
        load_result(checksum, locs) = FirstHolderDecides(checksum, locs)

\* a load over <<1, 2>> answered none from root 1, whose directory has no
\* result yet, while root 2 holds a complete result for the same checksum
C1_Witness ==
    /\ loaded.checksum = "ck1"
    /\ loaded.cache_locations = <<1, 2>>
    /\ loaded.ret = None
    /\ fs[<<1, "ck1">>].exists
    /\ fs[<<1, "ck1">>].files[RESULT].bytes = <<>>
    /\ \E r \in Results : Complete(fs[<<2, "ck1">>].files[RESULT], r)
    /\ load_result("ck1", <<1, 2>>) = None

\* C3 (as claimed): a save call that is given both a task and a result never
\* has _result open or written before it has written the task snapshot.
C3_TaskBeforeResult ==
    \A p \in Procs :
        (call[p].op = "save" /\ call[p].task # None /\ call[p].result # None)
        => LET w == written[p]
           IN  /\ pc[p] = "dump_result" => \E i \in 1..Len(w) : w[i] = TASK
               /\ \A j \in 1..Len(w) :
                      w[j] = RESULT => \E i \in 1..(j - 1) : w[i] = TASK

\* C4 (as claimed): a load_result that runs while saves are under way returns
\* none or a complete saved result and never fails on a partly written file.
C4_LoadNoneOrComplete ==
    loaded.ret \in {None} \cup Results

\* ------------------------------------------------------------- SpecRun

\* the cache roots of an executor, first the one it writes to
Locations == [i \in 1..NRoots |-> i]
ElementDir(checksum) == <<Locations[1], checksum>>

\* a directory as a finished run leaves it
DoneDir(result) ==
    [exists |-> TRUE,
     files |-> [f \in FileNames |->
                  IF f = RESULT
                  THEN [exists |-> TRUE,
                        bytes |-> [k \in 1..Chunks(result) |-> Chunk(result, k)]]
                  ELSE IF f = TASK
                  THEN [exists |-> TRUE, bytes |-> <<Chunk(TaskObj, 1)>>]
                  ELSE NoFile]]

\* the first root of cache_locations that holds the checksum directory holds
\* a complete, non-empty _result file
ResultInCache(checksum) ==
    \E i \in 1..NRoots :
        /\ fs[<<Locations[i], checksum>>].exists
        /\ \A j \in 1..(i - 1) : ~fs[<<Locations[j], checksum>>].exists
        /\ LET f == fs[<<Locations[i], checksum>>].files[RESULT]
           IN  f.exists /\ f.bytes # <<>> /\ Loads(f.bytes) \in Results

\* run(rerun): the cache check. With a cached result and rerun false the run is
\* a no-op that returns the cached result; an unreadable _result fails the run.
RunStart(p, checksum, rerun) ==
    /\ run[p].stage = "idle"
    /\ pc[p] = "idle"
    /\ nruns < MaxRuns
    /\ nruns' = nruns + 1
    /\ LET cached == load_result(checksum, Locations)
           go == rerun \/ cached = None
       IN  run' = [run EXCEPT ![p] =
                    [stage |-> IF go THEN "mkdir" ELSE "idle",
                     checksum |-> checksum, rerun |-> rerun,
                     cached |-> ResultInCache(checksum),
                     invoked |-> FALSE, raised |-> FALSE,
                     out |-> IF go THEN Running ELSE cached]]
    /\ UNCHANGED <<cacheVars, lock, nodeVars>>

\* write discipline (1): create the element directory
RunMkdir(p) ==
    /\ run[p].stage = "mkdir"
    /\ fs' = [fs EXCEPT ![ElementDir(run[p].checksum)].exists = TRUE]
    /\ run' = [run EXCEPT ![p].stage = "lock"]
    /\ UNCHANGED <<pc, call, off, written, ret, loaded, ncalls, lock, nruns, nodeVars>>

RunLockNoWait(p) ==
    /\ run[p].stage = "lock"
    /\ lock' = [lock EXCEPT ![ElementDir(run[p].checksum)] = p]
    /\ run' = [run EXCEPT ![p].stage = "snapshot"]
    /\ UNCHANGED <<cacheVars, nruns, nodeVars>>

\* write discipline (2): acquire the per-directory lock, waiting while another
\* executor holds it
RunLock(p) ==
    /\ run[p].stage = "lock"
    /\ lock[ElementDir(run[p].checksum)] = Free
    /\ lock' = [lock EXCEPT ![ElementDir(run[p].checksum)] = p]
    /\ run' = [run EXCEPT ![p].stage = "snapshot"]
    /\ UNCHANGED <<cacheVars, nruns, nodeVars>>

\* write discipline (3): write the task snapshot with save(dir, task=self)
RunSnapshot(p) ==
    /\ run[p].stage = "snapshot"
    /\ SaveCall(p, ElementDir(run[p].checksum), None, TaskObj)
    /\ run' = [run EXCEPT ![p].stage = "body"]
    /\ UNCHANGED <<loaded, ncalls, lock, nruns, nodeVars>>

\* write discipline (4): the runnable body runs; it returns a result or raises
RunBody(p, result, raises) ==
    /\ run[p].stage = "body"
    /\ pc[p] = "idle"
    /\ run' = [run EXCEPT ![p].stage = "store", ![p].invoked = TRUE,
                          ![p].raised = raises,
                          ![p].out = IF raises THEN ErrorObj ELSE result]
    /\ UNCHANGED <<cacheVars, lock, nruns, nodeVars>>

\* write discipline (5): on success save(dir, result=...), on failure
\* record_error(dir, error); the error is captured, not re-raised
RunStore(p) ==
    /\ run[p].stage = "store"
    /\ IF run[p].raised
       THEN RecordErrorCall(p, ElementDir(run[p].checksum), run[p].out)
       ELSE SaveCall(p, ElementDir(run[p].checksum), run[p].out, None)
    /\ run' = [run EXCEPT ![p].stage = "unlock"]
    /\ UNCHANGED <<loaded, ncalls, lock, nruns, nodeVars>>

\* write discipline (6): release the lock; the run returns
RunUnlock(p) ==
    /\ run[p].stage = "unlock"
    /\ pc[p] = "idle"
    /\ lock' = [lock EXCEPT ![ElementDir(run[p].checksum)] = Free]
    /\ run' = [run EXCEPT ![p].stage = "idle"]
    /\ UNCHANGED <<cacheVars, nruns, nodeVars>>

RunInit ==
    /\ NodesUnused
    /\ fs \in [Paths -> {EmptyDir} \cup {DoneDir(r) : r \in Results}]
    /\ \A checksum \in Checksums : fs[ElementDir(checksum)] = EmptyDir
    /\ pc = [p \in Procs |-> "idle"]
    /\ call = [p \in Procs |-> NoCall]
    /\ off = [p \in Procs |-> 0]
    /\ written = [p \in Procs |-> <<>>]
    /\ ret = [p \in Procs |-> None]
    /\ loaded = NoLoad
    /\ ncalls = 0
    /\ run = [p \in Procs |-> NoRun]
    /\ lock = [path \in Paths |-> Free]
    /\ nruns = 0

StepStart == \E p \in Procs, checksum \in Checksums, rerun \in BOOLEAN :
                RunStart(p, checksum, rerun)
StepMkdir == \E p \in Procs : RunMkdir(p)
StepLock == \E p \in Procs : RunLock(p)
StepSnapshot == \E p \in Procs : RunSnapshot(p)
StepBody == \E p \in Procs, result \in Results, raises \in BOOLEAN :
                RunBody(p, result, raises)
StepStore == \E p \in Procs : RunStore(p)
StepUnlock == \E p \in Procs : RunUnlock(p)
RunNext ==
    \/ StepStart
    \/ StepMkdir
    \/ StepLock
    \/ StepSnapshot
    \/ StepBody
    \/ StepStore
    \/ StepUnlock
    \/ StepOpenResult
    \/ StepOpenTask
    \/ StepFlush

vars == <<cacheVars, runVars, nodeVars>>

SpecRun == RunInit /\ [][RunNext]_vars

\* ------------------------------------------------------- claims: SpecRun

\* p is inside a save or record_error call on the directory
Writing(p, path) == pc[p] # "idle" /\ call[p].path = path

\* C2: at most one executor at a time writes into a (root, checksum)
\* directory, and whoever writes holds the directory's write lock.
C2_OneWriterPerDirectory ==
    \A path \in Paths : \A p, q \in Procs :
        /\ Writing(p, path) => lock[path] = p
        /\ Writing(p, path) /\ Writing(q, path) => p = q

\* one executor is writing into an element directory while another one, run
\* on the same element, waits for the lock
C2_Witness ==
    \E p, q \in Procs :
        /\ p # q
        /\ run[p].checksum = run[q].checksum
        /\ Writing(p, ElementDir(run[p].checksum))
        /\ run[q].stage = "lock"

\* C5: a run with rerun false of an element whose result is in the cache is a
\* no-op: the body is not invoked, no stage of the write discipline is
\* entered, and the run returns a result read from the cache. So a second
\* submission, whose elements all have results, invokes no body.
C5_CacheHitSkipsBody ==
    \A p \in Procs :
        (run[p].cached /\ ~run[p].rerun)
        => /\ ~run[p].invoked
           /\ run[p].stage = "idle"
           /\ run[p].out \in Results

\* a second run of an element returned the result that an earlier run of the
\* same element had stored in the first root, without invoking the body
C5_Witness ==
    \E p, q \in Procs :
        /\ p # q
        /\ run[p].checksum = "ck1" /\ run[q].checksum = "ck1"
        /\ run[q].invoked /\ ~run[q].raised /\ run[q].stage = "idle"
        /\ run[p].cached /\ ~run[p].rerun /\ ~run[p].invoked
        /\ run[p].out = run[q].out
        /\ Complete(fs[ElementDir("ck1")].files[RESULT], run[q].out)

\* C8: when the body of an element raises, the error is stored with
\* record_error as _error in that element's directory and the run goes on to
\* release the lock and return; an element whose body succeeds has its result
\* stored in its own directory, whatever happened to other elements.
C8_ErrorRecordedOthersRun ==
    \A p \in Procs :
        (run[p].stage = "unlock" /\ pc[p] = "idle")
        => /\ ret[p] = None
           /\ IF run[p].raised
              THEN Complete(fs[ElementDir(run[p].checksum)].files[ERROR], ErrorObj)
              ELSE Complete(fs[ElementDir(run[p].checksum)].files[RESULT], run[p].out)

\* element ck1 failed and left _error and no _result; element ck2 then ran and
\* stored its result
C8_Witness ==
    \E p, q \in Procs :
        /\ run[p].checksum = "ck1" /\ run[p].raised /\ run[p].stage = "idle"
        /\ Complete(fs[ElementDir("ck1")].files[ERROR], ErrorObj)
        /\ ~fs[ElementDir("ck1")].files[RESULT].exists
        /\ run[q].checksum = "ck2" /\ run[q].invoked /\ ~run[q].raised
        /\ run[q].stage = "unlock" /\ pc[q] = "idle"
        /\ \E r \in Results : Complete(fs[ElementDir("ck2")].files[RESULT], r)

\* --------------------------------------------------- nodes: split, combine

\* NodeBase.splitter setter, lines 166-170: whether it raises on a node whose
\* stored splitter is old, and what it stores
splitter_setter_raises(old, sp) ==
    old # NoSplitter /\ old # sp
splitter_setter_value(n, sp) ==
    change_splitter(sp, n)

\* NodeBase.split(splitter), lines 210-215
Split(n, sp) ==
    LET raises == splitter_setter_raises(splitter[n], sp)
        after == IF raises THEN splitter[n] ELSE splitter_setter_value(n, sp)
    IN  /\ splitter' = [splitter EXCEPT ![n] = after]
        /\ split_arg' = [split_arg EXCEPT ![n] = IF raises THEN @ ELSE sp]
        /\ UNCHANGED <<inputs, state_inputs, combiner, connected_var, needed_outputs,
                       ready2run_attr, is_complete, results_dict, last_combine,
                       last_prep>>
        /\ UNCHANGED <<cacheVars, runVars, output, run_order, wfVars>>

\* a combiner setter without the test for a splitter
CombinerSetterNoSplitterTest(n) ==
    combiner[n] # <<>>

\* NodeBase.combiner setter, lines 176-186
combiner_setter_raises(n) ==
    combiner[n] # <<>> \/ splitter[n] = NoSplitter

\* NodeBase.combine(combiner), lines 217-219, with a variable name
Combine(n, name) ==
    /\ combiner' = IF combiner_setter_raises(n) THEN combiner
                   ELSE [combiner EXCEPT ![n] = change_names(<<name>>, n)]
    /\ last_combine' = [node |-> n, had_splitter |-> splitter[n] # NoSplitter,
                        raised |-> combiner_setter_raises(n)]
    /\ UNCHANGED <<inputs, state_inputs, splitter, connected_var, needed_outputs,
                   ready2run_attr, is_complete, results_dict, split_arg, last_prep>>
    /\ UNCHANGED <<cacheVars, runVars, output, run_order, wfVars>>

\* ------------------------------------------------------------ nodes: state

upstream_nodes(n) == {needed_outputs[n][i][1] : i \in 1..Len(needed_outputs[n])}

\* NodeBase.state, lines 140-160: the splitter the property leaves on the
\* node. A node without a splitter gets the list of the names of its upstream
\* states, None when there is none.
RECURSIVE state_splitter(_)
state_splitter(n) ==
    LET incoming == SelectSeq(needed_outputs[n],
                              LAMBDA e : state_splitter(e[1]) # NoSplitter)
        names == [i \in 1..Len(incoming) |-> incoming[i][1]]
    IN  IF splitter[n] # NoSplitter THEN splitter[n]
        ELSE IF names = <<>> THEN NoSplitter
        ELSE NamesSplitter(names)

\* NodeBase.state is None, lines 154-160
state_is_none(n) == state_splitter(n) = NoSplitter

\* the splitter every node is left with once the state of n and of the nodes
\* upstream of n has been read
state_read(n) ==
    [m \in Nodes |-> IF m = n \/ m \in upstream_nodes(n)
                     THEN state_splitter(m) ELSE splitter[m]]

\* State._splitter_rpn: the variables of the splitter the state was built
\* from; a list of node names arrives after the state was built and adds none
splitter_rpn(n) ==
    IF state_splitter(n).op \in {"leaf", "outer"} THEN state_splitter(n).args ELSE <<>>

\* elements that vary along the first axis only
AllElementsFirstAxis(n) ==
    {ind \in Indices :
        /\ Len(ind) = Len(splitter_rpn(n))
        /\ \A i \in 1..Len(ind) :
              ind[i] < (IF i = 1 THEN Len(inputs[splitter_rpn(n)[i]]) ELSE 1)}

\* State.all_elements: the multi-indices, one axis per variable of the
\* splitter, the empty index without one; a split variable that is not among
\* the state inputs has no values to index
all_elements(n) ==
    LET rpn == splitter_rpn(n)
    IN  IF rpn = <<>> THEN {<<>>}
        ELSE IF \E i \in 1..Len(rpn) : rpn[i] \notin state_inputs[n] THEN {}
        ELSE {ind \in Indices :
                 /\ Len(ind) = Len(rpn)
                 /\ \A i \in 1..Len(rpn) : ind[i] < Len(inputs[rpn[i]])}

\* one entry key:value of a state dictionary; a variable outside the splitter
\* keeps its whole sequence
Entry(key, whole, val) == [key |-> key, whole |-> whole, val |-> val]

\* State.state_values(ind): the entries of the state inputs in sorted key
\* order, every split variable sliced at its axis of ind
state_values(n, ind) ==
    LET keys == SelectSeq(KeyOrder, LAMBDA k : k \in state_inputs[n])
        rpn == splitter_rpn(n)
        axis(k) == CHOOSE j \in 1..Len(rpn) : rpn[j] = k
    IN  [i \in 1..Len(keys) |->
            IF keys[i] \in Range(rpn)
            THEN Entry(keys[i], FALSE, <<inputs[keys[i]][ind[axis(keys[i])] + 1]>>)
            ELSE Entry(keys[i], TRUE, inputs[keys[i]])]

\* State.splitter_comb: the splitter without the combined variables
splitter_comb(sp, comb) ==
    LET rest == SelectSeq(sp.args, LAMBDA k : k \notin Range(comb))
    IN  IF sp.op \notin {"leaf", "outer"} \/ rest = sp.args THEN sp
        ELSE IF rest = <<>> THEN NoSplitter
        ELSE LeafSplitter(rest[1])

\* a directory name that keeps every variable of the state dictionary
DirectoryNameUnfiltered(n, state_dict) ==
    state_dict

\* NodeBase._directory_name_state_surv, lines 371-381: the directory name as
\* the sequence of its key:value parts
_directory_name_state_surv(n, state_dict) ==
    SelectSeq(state_dict, LAMBDA e : e.key \in Range(splitter_rpn(n)))

\* getattr(node.results_dict[dir_nm_el].output, "out"), lines 253, 299, 563
result_output(n, dir_nm_el) ==
    LET hits == {r \in results_dict[n] : r[1] = dir_nm_el}
    IN  IF hits = {} THEN "KeyError"
        ELSE LET out == (CHOOSE r \in hits : TRUE)[2]
             IN  IF out = NoField THEN "AttributeError"
                 ELSE IF out = 0 THEN "falsy" ELSE "truthy"

\* a get_input_el that takes an upstream output without looking it up
OutFromUnchecked(from_node, dir_nm_el_from) ==
    "ok"

\* NodeBase.get_input_el, lines 253-257: the output of one upstream element
out_from(from_node, dir_nm_el_from) ==
    LET out == result_output(from_node, dir_nm_el_from)
    IN  IF out = "truthy" THEN "ok"
        ELSE IF out = "falsy" THEN "Exception" ELSE out

\* NodeBase._state_dict_all_comb, lines 306-368: the state dictionaries of the
\* elements of from_node that were combined, one per index of the combined
\* variable; the other entries stay as they are
_state_dict_all_comb(from_node, state_dict) ==
    LET inp == combiner[from_node][1]
        pos == CHOOSE i \in 1..Len(state_dict) : state_dict[i].key = inp
        arr == state_dict[pos].val
    IN  [j \in 1..Len(arr) |-> [state_dict EXCEPT ![pos] = Entry(inp, FALSE, <<arr[j]>>)]]

\* NodeBase._get_input_comb, lines 291-304
_get_input_comb(from_node, state_dict) ==
    LET inp == combiner[from_node][1]
        all == _state_dict_all_comb(from_node, state_dict)
        bad == {j \in 1..Len(all) : out_from(from_node, all[j]) # "ok"}
    IN  IF inp \notin Range(splitter_rpn(from_node)) THEN "KeyError"
        ELSE IF \A i \in 1..Len(state_dict) : state_dict[i].key # inp THEN "KeyError"
        ELSE IF \E i \in 1..Len(state_dict) :
                   state_dict[i].key = inp /\ ~state_dict[i].whole THEN "AttributeError"
        ELSE IF ~is_node(from_node) \/ bad = {} THEN "ok"
        ELSE out_from(from_node, all[CHOOSE j \in bad : \A k \in bad : j <= k])

\* NodeBase.get_input_el, lines 242-257: what one edge (from_node,
\* from_socket, to_socket) does: "ok" puts the input, "skip" leaves it out, any
\* other value is the exception raised
edge_input(state_dict, edge) ==
    LET from_node == edge[1]
    IN  IF state_is_none(from_node) THEN "AttributeError"
        ELSE IF combiner[from_node] # <<>> THEN _get_input_comb(from_node, state_dict)
        ELSE IF is_node(from_node)
             THEN out_from(from_node, _directory_name_state_surv(from_node, state_dict))
        ELSE "skip"

\* NodeBase.get_input_el, lines 229-289: the state dictionary, the input
\* names that the edges put, and "ok" or the exception raised
get_input_el(n, ind) ==
    LET state_dict == state_values(n, ind)
        edges == needed_outputs[n]
        res == [i \in 1..Len(edges) |-> edge_input(state_dict, edges[i])]
        bad == {i \in 1..Len(edges) : res[i] \notin {"ok", "skip"}}
        stop == IF bad = {} THEN Len(edges) + 1
                ELSE CHOOSE i \in bad : \A k \in bad : i <= k
    IN  IF state_is_none(n)
        THEN [status |-> "AttributeError", state_dict |-> <<>>, inputs |-> {}]
        ELSE [status |-> IF bad = {} THEN "ok" ELSE res[stop],
              state_dict |-> state_dict,
              inputs |-> {edges[i][3] : i \in {k \in 1..Len(edges) : k < stop /\ res[k] = "ok"}}]

\* a checking_input_el that catches only the KeyError of a missing result
CheckingInputElKeyErrorOnly(n, ind) ==
    LET got == get_input_el(n, ind)
    IN  IF got.status = "ok" THEN "True"
        ELSE IF got.status = "KeyError" THEN "False" ELSE got.status

\* NodeBase.checking_input_el(ind, ind_inner), lines 221-227: the bare except
\* catches whatever get_input_el raises
checking_input_el(n, ind) ==
    LET got == get_input_el(n, ind)
    IN  IF got.status = "ok" THEN "True" ELSE "False"

\* Node._check_all_results, lines 540-566: "True", "False" or the exception
_check_all_results(n) ==
    LET dir(ind) == _directory_name_state_surv(n, state_values(n, ind))
        bad == {ind \in all_elements(n) : result_output(n, dir(ind)) # "truthy"}
        first == CHOOSE ind \in bad : \A other \in bad \ {ind} : LexLess(ind, other)
    IN  IF state_is_none(n) THEN "AttributeError"
        ELSE IF bad = {} THEN "True"
        ELSE IF result_output(n, dir(first)) = "falsy" THEN "False"
        ELSE result_output(n, dir(first))

\* NodeBase.is_finished, lines 128-130
is_finished(n) == FALSE

\* NodeBase.ready2run, lines 121-126, called as n.ready2run(): "True", "False",
\* or TypeError when the name is bound to the value False
ready2run(n) ==
    IF ready2run_attr[n] = "False" THEN "TypeError"
    ELSE IF \E i \in 1..Len(needed_outputs[n]) : ~is_finished(needed_outputs[n][i][1])
         THEN "False"
    ELSE "True"

\* ------------------------------------------------------- nodes: get_output

\* itertools.product(*self.state.all_elements), lines 508, 545: the
\* multi-indices in lexicographic order
RECURSIVE product(_)
product(S) ==
    IF S = {} THEN <<>>
    ELSE LET first == CHOOSE i \in S : \A j \in S \ {i} : LexLess(i, j)
         IN  <<first>> \o product(S \ {first})

\* the value of the field out of a stored result
result_value(n, dir_nm_el) ==
    (CHOOSE r \in results_dict[n] : r[1] = dir_nm_el)[2]

\* State.comb_inp_to_remove: the variables of the splitter that the combiner
\* eliminates
comb_inp_to_remove(n) ==
    SelectSeq(combiner[n], LAMBDA k : k \in Range(splitter_rpn(n)))

\* self._output[key_out][key] = val, line 529: a mapping in insertion order,
\* an existing key keeps its place
output_put(out, key, val) ==
    LET hits == {i \in 1..Len(out) : out[i].key = key}
    IN  IF hits = {} THEN Append(out, [key |-> key, val |-> val])
        ELSE [out EXCEPT ![CHOOSE i \in hits : TRUE] = [key |-> key, val |-> val]]

\* NodeBase._combined_output, lines 435-443, on the mapping out
_combined_output(n, out, state_dict, output_el) ==
    LET dir_nm_comb == SelectSeq(state_dict,
                                 LAMBDA e : e.key \notin Range(comb_inp_to_remove(n)))
        hits == {i \in 1..Len(out) : out[i].key = dir_nm_comb}
    IN  IF hits # {}
        THEN [out EXCEPT ![CHOOSE i \in hits : TRUE] =
                             [key |-> dir_nm_comb, val |-> Append(@.val, output_el)]]
        ELSE Append(out, [key |-> dir_nm_comb, val |-> <<output_el>>])

\* Node.get_output, lines 508-531, the loop from the elements inds on, with
\* the mapping out filled so far; a missing result or output field raises and
\* leaves the mapping as it is
RECURSIVE get_output_loop(_, _, _)
get_output_loop(n, inds, out) ==
    IF inds = <<>> THEN [ret |-> "ok", value |-> out]
    ELSE LET state_dict == state_values(n, Head(inds))
             dir_nm_el == _directory_name_state_surv(n, state_dict)
             found == result_output(n, dir_nm_el)
         IN  IF found \in {"KeyError", "AttributeError"}
             THEN [ret |-> found, value |-> out]
             ELSE get_output_loop(n, Tail(inds),
                      IF combiner[n] = <<>>
                      THEN output_put(out, dir_nm_el, result_value(n, dir_nm_el))
                      ELSE _combined_output(n, out, state_dict,
                                            result_value(n, dir_nm_el)))

\* a get_output that visits the elements in the order they were run and stored
GetOutputAsStored(n) ==
    get_output_loop(n, SelectSeq(run_order, LAMBDA i : i \in all_elements(n)), <<>>)

\* Node.get_output, lines 502-536, for the one output name out. A node whose
\* state is not None has a truthy splitter, so the branch of line 532 is not
\* taken.
get_output(n) ==
    IF state_is_none(n) THEN [ret |-> "AttributeError", value |-> <<>>]
    ELSE get_output_loop(n, product(all_elements(n)), <<>>)

\* --------------------------------------------------------- nodes: result

\* NodeBase._state_dict_to_list, lines 403-410: the items of the mapping as a
\* list of (state, value) pairs
_state_dict_to_list(container) ==
    [i \in 1..Len(container) |-> <<container[i].key, container[i].val>>]

\* NodeBase._reading_results_one_output, lines 446-464, on a node with a
\* splitter: the only pair when the combiner leaves no variable, the list of
\* pairs otherwise
_reading_results_one_output(n) ==
    LET val_l == _state_dict_to_list(output[n].value)
    IN  IF combiner[n] # <<>> /\ splitter_comb(state_splitter(n), combiner[n]) = NoSplitter
        THEN IF val_l = <<>> THEN [ret |-> "IndexError", value |-> <<>>]
             ELSE [ret |-> "ok", value |-> <<val_l[1]>>]
        ELSE [ret |-> "ok", value |-> val_l]

\* the keyword parameters of Node._reading_results(self), line 568
reading_results_params == {}

\* NodeBase.result(cache_locations, return_state), lines 201-204: the call
\* passes both arguments by keyword
result(n) ==
    IF {"cache_locations", "return_state"} \subseteq reading_results_params
    THEN _reading_results_one_output(n)
    ELSE [ret |-> "TypeError", value |-> <<>>]

\* ------------------------------------------------------ workflow: building

\* the sources an edge keyword of add names, as the parts that
\* source.split(".") gives: an output of a child (Z names no child), a field
\* of the workflow, a string with two dots
DottedSources == {<<"A", "out">>, <<"W", "out">>, <<"Z", "out">>}
PlainSources == {<<"wfa">>, <<"p", "q", "r">>}
\* the edge keywords inp=source that add is called with for node n: A binds
\* its field a, B its input x
Kwargs(n) ==
    {<<>>} \cup
    CASE n = "A" -> {<< <<"a", source>> >> : source \in PlainSources}
      [] n = "B" -> {<< <<"x", source>> >> : source \in DottedSources}
      [] OTHER -> {}

\* the fields of the workflow that add and connect work on; raised is the
\* exception, "" when there is none
WfFields ==
    [node_names |-> node_names, graph |-> graph, connected_var |-> connected_var,
     needed_inp_wf |-> needed_inp_wf, raised |-> ""]

\* Workflow.add_nodes([node]), lines 713-721
add_nodes(wf, node) ==
    [wf EXCEPT !.node_names = @ \cup {node}, !.connected_var[node] = <<>>]

\* self.connected_var[to_node][to_socket] = (from_node, from_socket), line
\* 769: an assignment to a dictionary, a key that exists keeps its place
connected_put(entries, entry) ==
    LET hits == {i \in 1..Len(entries) : entries[i][1] = entry[1]}
    IN  IF hits = {} THEN Append(entries, entry)
        ELSE [entries EXCEPT ![CHOOSE i \in hits : TRUE] = entry]

\* Workflow.connect, lines 763-771
connect(wf, from_node_nm, from_socket, to_node_nm, to_socket) ==
    IF from_node_nm \notin wf.node_names \/ to_node_nm \notin wf.node_names
    THEN [wf EXCEPT !.raised = "KeyError"]
    ELSE [wf EXCEPT !.graph = @ \cup {<<from_node_nm, to_node_nm>>},
                    !.connected_var[to_node_nm] =
                        connected_put(@, <<to_socket, from_node_nm, from_socket>>)]

\* Workflow.connect_wf_input, lines 774-775
connect_wf_input(wf, inp_wf, node_nm, inp_nd) ==
    [wf EXCEPT !.needed_inp_wf = Append(@, <<node_nm, inp_wf, inp_nd>>)]

\* Workflow.add, lines 753-759: one edge keyword; a source that does not
\* split into two parts raises ValueError at the unpacking, which is caught
add_edge(wf, node, kw) ==
    LET inp == kw[1]
        source == kw[2]
    IN  IF Len(source) = 2 THEN connect(wf, source[1], source[2], node, inp)
        ELSE connect_wf_input(wf, source, node, inp)

RECURSIVE add_edges(_, _, _, _)
add_edges(wf, node, kwargs, i) ==
    IF i > Len(kwargs) \/ wf.raised # "" THEN wf
    ELSE add_edges(add_edge(wf, node, kwargs[i]), node, kwargs, i + 1)

\* Workflow.add(runnable, **kwargs) with a node as runnable, lines 725-760
add(wf, node, kwargs) ==
    add_edges(add_nodes(wf, node), node, kwargs, 1)

\* what a child returns to Workflow.get_output, line 657; the sub-workflow W
\* has no child and no output of its own
node_output(n) ==
    IF is_node(n) THEN get_output(n) ELSE [ret |-> "ok", value |-> <<>>]

\* Workflow.get_output, lines 658-684, on a workflow without a splitter: the
\* entries of wf_output_names from the i-th on, keys being the keys of _output
RECURSIVE wf_outputs(_, _)
wf_outputs(keys, i) ==
    IF i > Len(wf_output_names) THEN [ret |-> "ok", keys |-> keys]
    ELSE LET node_nm == wf_output_names[i][1]
             out_nd_nm == wf_output_names[i][2]
             out_wf_nm == wf_output_names[i][3]
         IN  IF out_wf_nm \in Range(keys) THEN [ret |-> "Exception", keys |-> keys]
             ELSE IF node_nm \notin node_names \/ out_nd_nm # "out"
             THEN [ret |-> "KeyError", keys |-> keys]
             ELSE wf_outputs(Append(keys, out_wf_nm), i + 1)

\* the children whose get_output raises, and the first of them in the order
\* of the graph
failing_children == {n \in node_names : node_output(n).ret # "ok"}
first_failing ==
    graph_sorted[CHOOSE i \in 1..Len(graph_sorted) :
                    /\ graph_sorted[i] \in failing_children
                    /\ \A j \in 1..(i - 1) : graph_sorted[j] \notin failing_children]

\* Workflow.get_output, lines 650-685
wf_get_output ==
    IF failing_children # {}
    THEN [ret |-> node_output(first_failing).ret, keys |-> wf_output.keys]
    ELSE wf_outputs(wf_output.keys, 1)

\* -------------------------------------------------------- nodes: actions

\* NodeBase.is_complete, lines 386-392, read on a Node
IsComplete(n) ==
    /\ is_complete' = [is_complete EXCEPT ![n] = @ \/ _check_all_results(n) = "True"]
    /\ splitter' = IF is_complete[n] THEN splitter ELSE state_read(n)
    /\ UNCHANGED <<inputs, state_inputs, combiner, connected_var, needed_outputs,
                   ready2run_attr, results_dict, split_arg, last_combine,
                   last_prep>>
    /\ UNCHANGED <<cacheVars, runVars, output, run_order, wfVars>>

\* Node.run_interface_el(ind, None), lines 485-499, and the submitter that
\* stores the returned result under the returned directory name. self.run
\* returns a result; out is the field out of its output, NoField when the run
\* failed and the result has no output.
RunEl(n, ind, out) ==
    LET got == get_input_el(n, ind)
        dir_nm_el == _directory_name_state_surv(n, got.state_dict)
    IN  /\ results_dict' =
              IF got.status = "ok"
              THEN [results_dict EXCEPT ![n] =
                        {r \in @ : r[1] # dir_nm_el} \cup {<<dir_nm_el, out>>}]
              ELSE results_dict
        /\ splitter' = state_read(n)
        /\ UNCHANGED <<inputs, state_inputs, combiner, connected_var, needed_outputs,
                       ready2run_attr, is_complete, split_arg, last_combine,
                       last_prep>>
        /\ UNCHANGED <<cacheVars, runVars, output, wfVars>>

\* Node.get_output(), lines 502-536
GetOutput(n) ==
    /\ output' = [output EXCEPT ![n] = get_output(n)]
    /\ splitter' = state_read(n)
    /\ UNCHANGED <<inputs, state_inputs, combiner, connected_var, needed_outputs,
                   ready2run_attr, is_complete, results_dict, split_arg, last_combine,
                   last_prep, run_order>>
    /\ UNCHANGED <<cacheVars, runVars, wfVars>>

\* Workflow.add(node, **kwargs), lines 725-760
Add(n, kwargs) ==
    LET wf == add(WfFields, n, kwargs)
    IN  /\ node_names' = wf.node_names
        /\ graph' = wf.graph
        /\ connected_var' = wf.connected_var
        /\ needed_inp_wf' = wf.needed_inp_wf
        /\ last_add' = [seq |-> last_add.seq + 1, node |-> n, kwargs |-> kwargs,
                        raised |-> wf.raised]
        /\ last_added' = n
        /\ UNCHANGED <<node_splitters, last_split_node>>
        /\ UNCHANGED <<inputs, state_inputs, splitter, combiner, needed_outputs,
                       ready2run_attr, is_complete, results_dict, split_arg,
                       last_combine, last_prep, output, run_order, wf_output_names,
                       wf_output>>
        /\ UNCHANGED <<cacheVars, runVars, sumVars, scriptVars, nameVars, doneVars>>

\* Workflow.connect(from_node_nm, from_socket, to_node_nm, to_socket), lines
\* 763-771
Connect(from_node_nm, from_socket, to_node_nm, to_socket) ==
    LET wf == connect(WfFields, from_node_nm, from_socket, to_node_nm, to_socket)
    IN  /\ graph' = wf.graph
        /\ connected_var' = wf.connected_var
        /\ UNCHANGED <<inputs, state_inputs, splitter, combiner, needed_outputs,
                       ready2run_attr, is_complete, results_dict, split_arg,
                       last_combine, last_prep, output, run_order, node_names,
                       needed_inp_wf, wf_output_names, wf_output, last_add>>
        /\ UNCHANGED <<cacheVars, runVars, sumVars, scriptVars, nameVars, splitNodeVars,
                       doneVars>>

\* Workflow.split_node(splitter, node, inputs), lines 625-635, with
\* NodeBase.split(splitter, **kwargs), lines 210-215: split is called with the
\* keyword inputs, so kwargs is never empty and dc.replace(self.inputs,
\* inputs=inputs) runs after the splitter is set; it raises TypeError unless
\* the input spec of the child has a field named inputs
split_node(sp, node, replace_raises) ==
    LET target == IF node # "" THEN node ELSE last_added
        found == IF node # "" THEN node \in node_names ELSE last_added # ""
    IN  IF ~found
        THEN [splitter |-> splitter, state_inputs |-> state_inputs,
              node_splitters |-> node_splitters, split_arg |-> split_arg,
              raised |-> IF node # "" THEN "KeyError" ELSE "AttributeError",
              target |-> ""]
        ELSE IF splitter[target] # NoSplitter
        THEN [splitter |-> splitter, state_inputs |-> state_inputs,
              node_splitters |-> node_splitters, split_arg |-> split_arg,
              raised |-> "Exception", target |-> target]
        ELSE IF replace_raises
        THEN [splitter |-> [splitter EXCEPT ![target] = splitter_setter_value(target, sp)],
              state_inputs |-> state_inputs,
              node_splitters |-> node_splitters,
              split_arg |-> [split_arg EXCEPT ![target] = sp],
              raised |-> "TypeError", target |-> target]
        ELSE [splitter |-> [splitter EXCEPT ![target] = splitter_setter_value(target, sp)],
              state_inputs |-> [state_inputs EXCEPT ![target] = {<<"", "inputs">>}],
              node_splitters |-> [node_splitters EXCEPT
                                     ![target] = splitter_setter_value(target, sp)],
              split_arg |-> [split_arg EXCEPT ![target] = sp],
              raised |-> "", target |-> target]

SplitNode(sp, node, replace_raises) ==
    LET r == split_node(sp, node, replace_raises)
    IN  /\ splitter' = r.splitter
        /\ state_inputs' = r.state_inputs
        /\ node_splitters' = r.node_splitters
        /\ split_arg' = r.split_arg
        /\ last_split_node' = [seq |-> last_split_node.seq + 1, node |-> r.target,
                               raised |-> r.raised]
        /\ UNCHANGED <<inputs, combiner, connected_var, needed_outputs, ready2run_attr,
                       is_complete, results_dict, last_combine, last_prep, output,
                       run_order, node_names, graph, needed_inp_wf, wf_output_names,
                       wf_output, last_add, last_added>>
        /\ UNCHANGED <<cacheVars, runVars, sumVars, scriptVars, nameVars, doneVars>>

\* Workflow.get_output(), lines 650-685: the children are asked for their
\* outputs in the order of the graph, up to the first that raises
WfGetOutput ==
    LET visited == {n \in node_names :
                      is_node(n) /\ (failing_children = {} \/
                          \E i \in 1..Len(graph_sorted) :
                              /\ graph_sorted[i] = first_failing
                              /\ \E j \in 1..i : graph_sorted[j] = n)}
    IN  /\ wf_output' = wf_get_output
        /\ output' = [n \in Nodes |-> IF n \in visited THEN get_output(n) ELSE output[n]]
        /\ splitter' = [m \in Nodes |->
                           IF \E n \in visited : m = n \/ m \in upstream_nodes(n)
                           THEN state_splitter(m) ELSE splitter[m]]
        /\ UNCHANGED <<inputs, state_inputs, combiner, connected_var, needed_outputs,
                       ready2run_attr, is_complete, results_dict, split_arg,
                       last_combine, last_prep, run_order, node_names, graph,
                       needed_inp_wf, wf_output_names, last_add>>
        /\ UNCHANGED <<cacheVars, runVars, sumVars, scriptVars, nameVars, splitNodeVars,
                       doneVars>>

\* the node fields Workflow.preparing works on
PrepFields ==
    [splitter |-> splitter, state_inputs |-> state_inputs,
     needed_outputs |-> needed_outputs, ready2run_attr |-> ready2run_attr,
     is_complete |-> is_complete, inputs |-> inputs, raised |-> FALSE, cause |-> ""]

\* a preparing that passes over a workflow field that is not supplied
PrepWfInputSkipAbsent(st, entry, wf_inputs) ==
    st

\* Workflow.preparing, lines 781-793: one entry (node_nm, inp_wf, inp_nd) of
\* needed_inp_wf; wf_inputs is the set of workflow fields that are supplied,
\* each with the value [1]
prep_wf_input(st, entry, wf_inputs) ==
    LET node_nm == entry[1]
        inp_wf == entry[2]
        key == <<node_nm, entry[3]>>
    IN  IF node_nm \notin node_names THEN [st EXCEPT !.raised = TRUE, !.cause = "KeyError"]
        ELSE IF inp_wf \notin wf_inputs
        THEN [st EXCEPT !.raised = TRUE, !.cause = "not in the workflow inputs"]
        ELSE [st EXCEPT !.state_inputs[node_nm] = @ \cup {key}, !.inputs[key] = <<1>>]

RECURSIVE prep_wf_inputs(_, _, _)
prep_wf_inputs(st, i, wf_inputs) ==
    IF i > Len(needed_inp_wf) \/ st.raised THEN st
    ELSE prep_wf_inputs(prep_wf_input(st, needed_inp_wf[i], wf_inputs), i + 1, wf_inputs)

\* Workflow.preparing, lines 806-821: one edge inp <- (out_node, out_var) of nn
prep_edge(st, nn, edge) ==
    LET inp == edge[1]
        out_node == edge[2]
        out_var == edge[3]
        st1 == [st EXCEPT !.ready2run_attr[nn] = "False",
                          !.state_inputs[nn] = @ \cup st.state_inputs[out_node],
                          !.needed_outputs[nn] = Append(@, <<out_node, out_var, inp>>)]
        inherit == /\ st.splitter[nn] = NoSplitter \/ st.splitter[nn] = st.splitter[out_node]
                   /\ st.splitter[out_node] # NoSplitter
        new == IF combiner[out_node] # <<>>
               THEN splitter_comb(st.splitter[out_node], combiner[out_node])
               ELSE st.splitter[out_node]
    IN  IF ~inherit THEN st1
        ELSE IF splitter_setter_raises(st.splitter[nn], new) THEN [st1 EXCEPT !.raised = TRUE, !.cause = "splitter setter"]
        ELSE [st1 EXCEPT !.splitter[nn] = splitter_setter_value(nn, new)]

RECURSIVE prep_edges(_, _, _)
prep_edges(st, nn, i) ==
    IF i > Len(connected_var[nn]) \/ st.raised THEN st
    ELSE prep_edges(prep_edge(st, nn, connected_var[nn][i]), nn, i + 1)

\* Workflow.preparing, lines 794-830: one child nn; prepare_state_input
\* cannot build a state from a list of node names
prep_node(st, nn) ==
    LET st1 == prep_edges([st EXCEPT !.is_complete[nn] = FALSE], nn, 1)
    IN  IF st1.raised \/ st1.splitter[nn].op # "names" THEN st1
        ELSE [st1 EXCEPT !.raised = TRUE, !.cause = "prepare_state_input"]

RECURSIVE prep_nodes(_, _)
prep_nodes(st, i) ==
    IF i > Len(graph_sorted) \/ st.raised THEN st
    ELSE prep_nodes(prep_node(st, graph_sorted[i]), i + 1)

\* Workflow.preparing(wf_inputs), lines 778-830
Preparing(wf_inputs) ==
    LET st == prep_nodes(prep_wf_inputs(PrepFields, 1, wf_inputs), 1)
    IN  /\ splitter' = st.splitter
        /\ inputs' = st.inputs
        /\ state_inputs' = st.state_inputs
        /\ needed_outputs' = st.needed_outputs
        /\ ready2run_attr' = st.ready2run_attr
        /\ is_complete' = st.is_complete
        /\ last_prep' = [count |-> last_prep.count + 1, raised |-> st.raised,
                         cause |-> st.cause, wf_inputs |-> wf_inputs]
        /\ UNCHANGED <<combiner, connected_var, results_dict, split_arg,
                       last_combine>>
        /\ UNCHANGED <<cacheVars, runVars, output, run_order, wfVars>>

\* ------------------------------------------------------------- SpecNode

NodeInit ==
    /\ inputs \in [Keys -> InputSeqs \cup {Unbound}]
    /\ inputs[<<"A", "a">>] # Unbound
    /\ inputs[<<"A", "b">>] \in {Unbound, <<1>>}
    /\ inputs[<<"W", "w">>] = <<1>>
    /\ state_inputs = [n \in Nodes |-> {k \in Keys : k[1] = n /\ inputs[k] # Unbound}]
    /\ splitter = [n \in Nodes |-> NoSplitter]
    /\ combiner = [n \in Nodes |-> <<>>]
    /\ connected_var \in {[n \in Nodes |-> IF n = "B" THEN edges ELSE <<>>] :
                            edges \in {<< <<"x", "A", "out">> >>,
                                       << <<"x", "A", "out">>, <<"y", "W", "out">> >>}}
    /\ needed_outputs = [n \in Nodes |-> <<>>]
    /\ ready2run_attr = [n \in Nodes |-> "method"]
    /\ is_complete = [n \in Nodes |-> FALSE]
    /\ results_dict = [n \in Nodes |-> {}]
    /\ split_arg = [n \in Nodes |-> NoSplitter]
    /\ last_combine = NoCombine
    /\ last_prep = NoPrep
    /\ output = [n \in Nodes |-> NoOutput]
    /\ run_order = <<>>
    /\ WfBuilt
    /\ fs = [path \in Paths |-> EmptyDir]
    /\ pc = [p \in Procs |-> "idle"]
    /\ call = [p \in Procs |-> NoCall]
    /\ off = [p \in Procs |-> 0]
    /\ written = [p \in Procs |-> <<>>]
    /\ ret = [p \in Procs |-> None]
    /\ loaded = NoLoad
    /\ ncalls = 0
    /\ run = [p \in Procs |-> NoRun]
    /\ lock = [path \in Paths |-> Free]
    /\ nruns = 0

\* the workflow is set up, then prepared, then run
StepSplit ==
    /\ last_prep = NoPrep
    /\ \E n \in Nodes : \E sp \in SplitArgs(n) :
          /\ inputs[change_names(sp.args, n)[1]] # Unbound
          /\ Split(n, sp)
StepCombine ==
    /\ last_prep = NoPrep
    /\ \E f \in FieldsOf("A") : Combine("A", <<"", f>>)
StepPreparing ==
    /\ last_prep.count < MaxPrep
    /\ Preparing({})
StepRunEl ==
    \E n \in {"A", "B"} : \E ind \in all_elements(n) : \E out \in OutVals :
        RunEl(n, ind, out) /\ UNCHANGED run_order
StepIsComplete ==
    \E n \in {"A", "B"} : IsComplete(n)

NodeNext ==
    \/ StepSplit
    \/ StepCombine
    \/ StepPreparing
    \/ StepRunEl
    \/ StepIsComplete

SpecNode == NodeInit /\ [][NodeNext]_vars

\* ------------------------------------------------------------- SpecOut

\* the sequences the fields of the node are bound to
OutSeqs == SeqsUpTo(Vals, MaxLen) \ {<<>>}
\* the interface of the node: its output out as a function of its inputs
interface_out(a, b) == 10 * a + b

\* a node A constructed with inputs a and b, the splitter a x b and possibly
\* a combiner
OutInit ==
    /\ inputs \in [Keys -> OutSeqs]
    /\ inputs[<<"W", "w">>] = <<1>>
    /\ state_inputs = [n \in Nodes |-> {k \in Keys : k[1] = n}]
    /\ splitter = [n \in Nodes |->
                      IF n = "A" THEN OuterSplitter(<<"A", "a">>, <<"A", "b">>)
                      ELSE NoSplitter]
    /\ combiner \in {[n \in Nodes |-> IF n = "A" THEN comb ELSE <<>>] :
                       comb \in {<<>>, << <<"A", "a">> >>, << <<"A", "b">> >>}}
    /\ connected_var = [n \in Nodes |-> <<>>]
    /\ needed_outputs = [n \in Nodes |-> <<>>]
    /\ ready2run_attr = [n \in Nodes |-> "method"]
    /\ is_complete = [n \in Nodes |-> FALSE]
    /\ results_dict = [n \in Nodes |-> {}]
    /\ split_arg = [n \in Nodes |-> splitter[n]]
    /\ last_combine = NoCombine
    /\ last_prep = NoPrep
    /\ output = [n \in Nodes |-> NoOutput]
    /\ run_order = <<>>
    /\ WfBuilt
    /\ fs = [path \in Paths |-> EmptyDir]
    /\ pc = [p \in Procs |-> "idle"]
    /\ call = [p \in Procs |-> NoCall]
    /\ off = [p \in Procs |-> 0]
    /\ written = [p \in Procs |-> <<>>]
    /\ ret = [p \in Procs |-> None]
    /\ loaded = NoLoad
    /\ ncalls = 0
    /\ run = [p \in Procs |-> NoRun]
    /\ lock = [path \in Paths |-> Free]
    /\ nruns = 0

\* the scheduler runs every element of A once, in any order
StepRunOut ==
    \E ind \in all_elements("A") \ Range(run_order) :
        /\ RunEl("A", ind, interface_out(inputs[<<"A", "a">>][ind[1] + 1],
                                         inputs[<<"A", "b">>][ind[2] + 1]))
        /\ run_order' = Append(run_order, ind)
StepGetOutput ==
    \E n \in {"A"} : GetOutput(n)

OutNext ==
    \/ StepRunOut
    \/ StepGetOutput

SpecOut == OutInit /\ [][OutNext]_vars

\* -------------------------------------------------------------- SpecWf

\* the number of add calls
MaxAdds == 3
MaxSplitNodes == 1
\* the sets of workflow fields that preparing is given
WfInputs == {{}, {<<"wfa">>}}
\* the lists of (child, output of the child, name in the workflow) that the
\* workflow is constructed with
WfOutputNames ==
    {<<>>,
     << <<"A", "out", "o">>, <<"A", "out", "p">> >>,
     << <<"A", "out", "o">>, <<"A", "out", "o">> >>}

\* an empty workflow and the nodes to add: A constructed with a = [1] and the
\* splitter a, B, and the sub-workflow W
WfInit ==
    /\ inputs = [k \in Keys |-> IF k = <<"A", "a">> THEN <<1>> ELSE Unbound]
    /\ state_inputs = [n \in Nodes |-> IF n = "A" THEN {<<"A", "a">>} ELSE {}]
    /\ splitter = [n \in Nodes |->
                      IF n = "A" THEN LeafSplitter(<<"A", "a">>) ELSE NoSplitter]
    /\ combiner = [n \in Nodes |-> <<>>]
    /\ connected_var = [n \in Nodes |-> <<>>]
    /\ needed_outputs = [n \in Nodes |-> <<>>]
    /\ ready2run_attr = [n \in Nodes |-> "method"]
    /\ is_complete = [n \in Nodes |-> FALSE]
    /\ results_dict = [n \in Nodes |-> {}]
    /\ split_arg = [n \in Nodes |-> splitter[n]]
    /\ last_combine = NoCombine
    /\ last_prep = NoPrep
    /\ output = [n \in Nodes |-> NoOutput]
    /\ run_order = <<>>
    /\ node_names = {}
    /\ graph = {}
    /\ needed_inp_wf = <<>>
    /\ wf_output_names \in WfOutputNames
    /\ wf_output = NoWfOutput
    /\ last_add = NoAdd
    /\ SplitNodeUnused
    /\ WfUnchecked
    /\ SumUnused
    /\ fs = [path \in Paths |-> EmptyDir]
    /\ pc = [p \in Procs |-> "idle"]
    /\ call = [p \in Procs |-> NoCall]
    /\ off = [p \in Procs |-> 0]
    /\ written = [p \in Procs |-> <<>>]
    /\ ret = [p \in Procs |-> None]
    /\ loaded = NoLoad
    /\ ncalls = 0
    /\ run = [p \in Procs |-> NoRun]
    /\ lock = [path \in Paths |-> Free]
    /\ nruns = 0

\* the workflow is built, then prepared, then run, then its output collected
StepAdd ==
    /\ last_prep = NoPrep
    /\ last_add.seq < MaxAdds
    /\ \E n \in Nodes : \E kwargs \in Kwargs(n) : Add(n, kwargs)
StepConnect ==
    /\ last_prep = NoPrep
    /\ {"A", "B", "W"} \subseteq node_names
    /\ \E from_node_nm \in {"A", "W"} : Connect(from_node_nm, "out", "B", "x")
StepPreparingWf ==
    /\ last_prep.count < MaxPrep
    /\ wf_output = NoWfOutput
    /\ \E wf_inputs \in WfInputs : Preparing(wf_inputs)
StepRunWf ==
    /\ wf_output = NoWfOutput
    /\ \E n \in node_names \cap {"A", "B"} : \E ind \in all_elements(n) :
          RunEl(n, ind, 1) /\ UNCHANGED run_order
StepWfGetOutput ==
    /\ wf_output.ret # "Exception"
    /\ WfGetOutput

StepSplitNode ==
    /\ last_prep = NoPrep
    /\ last_split_node.seq < MaxSplitNodes
    /\ \E node \in {""} \cup Nodes : \E replace_raises \in BOOLEAN :
          \E sp \in SplitArgs(IF node # "" THEN node
                               ELSE IF last_added # "" THEN last_added ELSE "A") :
              SplitNode(sp, node, replace_raises)
WfNext ==
    \/ StepAdd
    \/ StepSplitNode
    \/ StepConnect
    \/ StepPreparingWf
    \/ StepRunWf
    \/ StepWfGetOutput

SpecWf == WfInit /\ [][WfNext]_vars

\* ------------------------------------------------------------- SpecSum

\* a checksum built without the separator
ChecksumNoSeparator(name, input_hash) ==
    name \o input_hash

\* helpers.py create_checksum(name, inputs), lines 306-318: "_".join((name, inputs))
create_checksum(name, input_hash) ==
    name \o <<"_">> \o input_hash

\* NodeBase.checksum, lines 117-119: the property is computed at every read
Checksum(n) ==
    /\ node_checksum' = [node_checksum EXCEPT
                            ![n] = create_checksum(class_name[n], inputs_hash[n])]
    /\ UNCHANGED <<class_name, inputs_hash>>
    /\ UNCHANGED <<cacheVars, runVars, inputs, state_inputs, splitter, combiner,
                   connected_var, needed_outputs, ready2run_attr, is_complete,
                   results_dict, split_arg, last_combine, last_prep, output,
                   run_order, node_names, graph, needed_inp_wf, wf_output_names,
                   wf_output, last_add, scriptVars, nameVars, splitNodeVars, doneVars>>

\* the nodes A and B of any classes and with any input hashes
SumInit ==
    /\ class_name \in [Nodes -> ClassNames]
    /\ inputs_hash \in [Nodes -> InputHashes]
    /\ class_name["W"] = <<"N">> /\ inputs_hash["W"] = <<"a">>
    /\ node_checksum = [n \in Nodes |-> NoChecksum]
    /\ scripts = [k \in Paths \X Checksums |-> NoScript]
    /\ last_script = NoPyscript
    /\ NamesUnused
    /\ inputs = [k \in Keys |-> <<1>>]
    /\ state_inputs = [n \in Nodes |-> {}]
    /\ splitter = [n \in Nodes |-> NoSplitter]
    /\ combiner = [n \in Nodes |-> <<>>]
    /\ connected_var = [n \in Nodes |-> <<>>]
    /\ needed_outputs = [n \in Nodes |-> <<>>]
    /\ ready2run_attr = [n \in Nodes |-> "method"]
    /\ is_complete = [n \in Nodes |-> FALSE]
    /\ results_dict = [n \in Nodes |-> {}]
    /\ split_arg = [n \in Nodes |-> NoSplitter]
    /\ last_combine = NoCombine
    /\ last_prep = NoPrep
    /\ output = [n \in Nodes |-> NoOutput]
    /\ run_order = <<>>
    /\ node_names = Nodes
    /\ graph = {}
    /\ needed_inp_wf = <<>>
    /\ wf_output_names = <<>>
    /\ wf_output = NoWfOutput
    /\ last_add = NoAdd
    /\ SplitNodeUnused
    /\ WfUnchecked
    /\ fs = [path \in Paths |-> EmptyDir]
    /\ pc = [p \in Procs |-> "idle"]
    /\ call = [p \in Procs |-> NoCall]
    /\ off = [p \in Procs |-> 0]
    /\ written = [p \in Procs |-> <<>>]
    /\ ret = [p \in Procs |-> None]
    /\ loaded = NoLoad
    /\ ncalls = 0
    /\ run = [p \in Procs |-> NoRun]
    /\ lock = [path \in Paths |-> Free]
    /\ nruns = 0

StepChecksum == \E n \in {"A", "B"} : Checksum(n)
SumNext == StepChecksum
SpecSum == SumInit /\ [][SumNext]_vars


\* ------------------------------------------------------ claims: SpecNode

NodeElements == {<<n, ind>> : n \in {"A", "B"}, ind \in {<<>>} \cup {<<i>> : i \in 0..(MaxLen - 1)}}
\* the elements of the nodes that have a state
Elements == {e \in NodeElements : ~state_is_none(e[1]) /\ e[2] \in all_elements(e[1])}

\* run_interface_el reaches the body of element e exactly when get_input_el
\* returns
BodyStarts(e) == get_input_el(e[1], e[2]).status = "ok"

\* element ind_m of the upstream node m is one that element ind of n reads:
\* the two agree on every variable both nodes split over
Agree(n, ind, m, ind_m) ==
    \A k \in Range(splitter_rpn(m)) \cap Range(splitter_rpn(n)) :
        inputs[k][ind_m[1] + 1] = inputs[k][ind[1] + 1]

\* element ind of node n is complete: its result is stored under its
\* directory name and has a truthy out
ElementStored(n, ind) ==
    \E r \in results_dict[n] :
        /\ r[1] = _directory_name_state_surv(n, state_values(n, ind))
        /\ r[2] \notin {NoField, 0}

IsCompleteNow(m) == is_complete[m] \/ _check_all_results(m) = "True"

\* C7 (as claimed): for a node whose upstream nodes are Nodes, ready2run
\* returns True exactly when every upstream node in needed_outputs is complete,
\* also after preparing has run.
C7_Ready2RunIffUpstreamComplete ==
    \A n \in Nodes :
        (\A m \in upstream_nodes(n) : is_node(m)) =>
            (ready2run(n) = "True" <=> \A m \in upstream_nodes(n) : IsCompleteNow(m))

\* C9 (as claimed): whenever get_input_el returns for an element, the inputs
\* dictionary it returns has a value for every connected input.
C9_ReturnedInputsComplete ==
    \A e \in Elements :
        BodyStarts(e) =>
            \A i \in 1..Len(needed_outputs[e[1]]) :
                needed_outputs[e[1]][i][3] \in get_input_el(e[1], e[2]).inputs

\* C10 (as claimed): once split has set a splitter on a node, a further split
\* call does not raise exactly when its expression is the one of that call, and
\* it then stores the splitter that is stored already.
C10_SplitIdempotentOnEqual ==
    \A n \in {"A", "W"} :
        split_arg[n] # NoSplitter =>
            \A sp \in SplitArgs(n) :
                /\ splitter_setter_raises(splitter[n], sp) <=> sp # split_arg[n]
                /\ sp = split_arg[n] => splitter_setter_value(n, sp) = splitter[n]

\* C11: a combine call on a node that has no splitter raises, and a node
\* without a splitter has an empty combiner.
C11_CombineNeedsSplitter ==
    /\ \A n \in Nodes : splitter[n] = NoSplitter => combiner[n] = <<>>
    /\ (last_combine.node # "" /\ ~last_combine.had_splitter) => last_combine.raised

\* C11 witness: combine was called on A before any split, raised, and left
\* the combiner empty.
C11_Witness ==
    /\ last_combine.node = "A" /\ ~last_combine.had_splitter /\ last_combine.raised
    /\ splitter["A"] = NoSplitter /\ combiner["A"] = <<>>

\* C12 (as claimed): on a node whose combiner is set, a combine call with a
\* combiner equal to the stored one does not raise.
C12_CombineIdempotentOnEqual ==
    \A n \in Nodes : combiner[n] # <<>> => ~combiner_setter_raises(n)

\* the result of element ind of n is stored and its output has the field out,
\* whatever its value
OutputPresent(n, ind) ==
    \E r \in results_dict[n] :
        /\ r[1] = _directory_name_state_surv(n, state_values(n, ind))
        /\ r[2] # NoField

\* C13 (as claimed): on a node with a state, _check_all_results returns True
\* when every element has a stored result with the output field present, and
\* returns False, without raising, otherwise; a present falsy value counts as
\* present.
C13_CheckAllResultsTotal ==
    \A n \in {"A", "B"} :
        ~state_is_none(n) =>
            _check_all_results(n) =
                IF \A ind \in all_elements(n) : OutputPresent(n, ind)
                THEN "True" ELSE "False"

\* C14 (as claimed): once the completeness flag of a node is set, no step
\* clears it or changes the node's splitter or combiner.
C14_CompleteIsFinal ==
    [][\A n \in {"A", "B"} :
          is_complete[n] =>
              /\ is_complete'[n]
              /\ splitter'[n] = splitter[n]
              /\ combiner'[n] = combiner[n]]_vars

\* the two-node pipeline: A is split over a and has no combiner, B has no
\* splitter of its own and its one edge comes from A; preparing has run
Pipeline ==
    /\ last_prep.count > 0 /\ ~last_prep.raised
    /\ splitter["A"] = LeafSplitter(<<"A", "a">>) /\ combiner["A"] = <<>>
    /\ split_arg["B"] = NoSplitter
    /\ connected_var["B"] = << <<"x", "A", "out">> >>

\* C15 (as claimed): in the pipeline B has exactly one element after
\* preparing, and its body does not start before every element of A is
\* stored.
C15_PipelineOneElement ==
    Pipeline =>
        /\ Cardinality(all_elements("B")) = 1
        /\ \A ind \in all_elements("B") :
              BodyStarts(<<"B", ind>>) =>
                  \A ind_a \in all_elements("A") : ElementStored("A", ind_a)

\* the child B, whose one edge comes from A, is to inherit: its splitter is
\* unset or equal to A's
Inherits ==
    /\ connected_var["B"] = << <<"x", "A", "out">> >>
    /\ splitter["A"] # NoSplitter
    /\ splitter["B"] = NoSplitter \/ splitter["B"] = splitter["A"]

\* C16 (as claimed): a preparing call leaves a child that is to inherit with
\* the upstream's splitter, or with the upstream's combined splitter when the
\* upstream has a combiner, and its splitter setter does not raise; a child
\* with a different splitter of its own keeps it.
C16_PreparingInherits ==
    [][last_prep'.count # last_prep.count =>
          /\ Inherits =>
                /\ last_prep'.cause # "splitter setter"
                /\ splitter'["B"] = IF combiner["A"] = <<>> THEN splitter["A"]
                                    ELSE splitter_comb(splitter["A"], combiner["A"])
          /\ (splitter["B"].op = "leaf" /\ splitter["B"] # splitter["A"]) =>
                splitter'["B"] = splitter["B"]]_vars

\* ------------------------------------------------------- claims: SpecOut

\* get_output has returned on the node A with splitter a x b and the
\* combiner comb
Collected(comb) ==
    output["A"].ret = "ok" /\ combiner["A"] = <<comb>>

\* C17 (as claimed): with splitter a x b and combiner a, the mapping
\* get_output returns has one entry per value of b, and the list of each is
\* the outputs over a in order, of length |a|, also when a or b holds a value
\* more than once.
C17_CombinedListPerValue ==
    Collected(<<"A", "a">>) =>
        LET a == inputs[<<"A", "a">>]
            b == inputs[<<"A", "b">>]
            out == output["A"].value
        IN  /\ Len(out) = Cardinality(Range(b))
            /\ \A v \in Range(b) :
                  \E i \in 1..Len(out) :
                      /\ out[i].key = <<Entry(<<"A", "b">>, FALSE, <<v>>)>>
                      /\ out[i].val = [j \in 1..Len(a) |-> interface_out(a[j], v)]

\* the output of element ind of A
ElementOut(ind) ==
    interface_out(inputs[<<"A", "a">>][ind[1] + 1], inputs[<<"A", "b">>][ind[2] + 1])
\* the key an element is collected under: its state without the combined
\* variables
CombinedKey(ind) ==
    SelectSeq(state_values("A", ind), LAMBDA e : e.key \notin Range(combiner["A"]))

\* C18: when get_output has returned on a node with a combiner, every list
\* of the mapping holds the outputs of the elements collected under its key
\* in ascending order of their multi-index, whatever the order in which the
\* elements were run and stored.
C18_ListsInIndexOrder ==
    (output["A"].ret = "ok" /\ combiner["A"] # <<>>) =>
        \A i \in 1..Len(output["A"].value) :
            LET entry == output["A"].value[i]
                under == SelectSeq(product(all_elements("A")),
                                   LAMBDA ind : CombinedKey(ind) = entry.key)
            IN  entry.val = [j \in 1..Len(under) |-> ElementOut(under[j])]

\* C18 witness: get_output has returned lists of two different outputs for a
\* node whose four elements were run in descending order of the multi-index.
C18_Witness ==
    /\ Collected(<<"A", "a">>)
    /\ inputs[<<"A", "a">>] = <<2, 1>> /\ inputs[<<"A", "b">>] = <<1, 2>>
    /\ run_order = << <<1, 1>>, <<1, 0>>, <<0, 1>>, <<0, 0>> >>
    /\ output["A"].value[1].val = <<21, 11>>

\* the state dictionary with the same pairs, inserted in the opposite key
\* order
Reversed(state_dict) ==
    [i \in 1..Len(state_dict) |-> state_dict[Len(state_dict) + 1 - i]]

\* C19 (as claimed): the directory name of a state dictionary depends on its
\* pairs only: the state dictionary of an element and the dictionary with the
\* same pairs inserted in the opposite key order have the same directory name.
C19_DirNameOrderFree ==
    \A ind \in all_elements("A") :
        _directory_name_state_surv("A", Reversed(state_values("A", ind)))
            = _directory_name_state_surv("A", state_values("A", ind))

\* C20 (as claimed): two different elements of a node with a splitter have
\* different directory names, so results_dict holds one entry per element
\* once every element has run, also when an input holds a value twice.
C20_OneDirectoryPerElement ==
    Range(run_order) = all_elements("A") =>
        /\ \A ind \in all_elements("A") : \A other \in all_elements("A") :
              ind # other =>
                  _directory_name_state_surv("A", state_values("A", ind))
                      # _directory_name_state_surv("A", state_values("A", other))
        /\ Cardinality(results_dict["A"]) = Cardinality(all_elements("A"))

\* --------------------------------------------- claims: SpecNode, continued

\* the variables of a state dictionary or of a directory name
KeysOf(entries) == {entries[i].key : i \in 1..Len(entries)}

\* C21: the directory name of an element holds one key:value pair of the
\* state dictionary for exactly those of its keys that are in the splitter of
\* the node, and no other variable.
C21_NameHasSplitKeysOnly ==
    \A e \in Elements :
        LET state_dict == state_values(e[1], e[2])
            dir_nm_el == _directory_name_state_surv(e[1], state_dict)
        IN  /\ KeysOf(dir_nm_el) = KeysOf(state_dict) \cap Range(splitter_rpn(e[1]))
            /\ Range(dir_nm_el) \subseteq Range(state_dict)
            /\ Len(dir_nm_el) = Cardinality(KeysOf(dir_nm_el))

\* C21 witness: an element of A, split over a with b bound as well, has run
\* and its result is stored under a name that holds a and not b.
C21_Witness ==
    /\ splitter["A"] = LeafSplitter(<<"A", "a">>)
    /\ <<"A", "b">> \in state_inputs["A"]
    /\ \E r \in results_dict["A"] :
          /\ r[1] = _directory_name_state_surv("A", state_values("A", <<0>>))
          /\ KeysOf(r[1]) = {<<"A", "a">>}
          /\ KeysOf(state_values("A", <<0>>)) = {<<"A", "a">>, <<"A", "b">>}

\* C26 (as claimed): once preparing has returned, the needed_outputs of the
\* child B holds one entry (from_node, from_field, to_field) for every edge of
\* connected_var, and holds it once, also after a second preparing call.
C26_NeededOutputsOncePerEdge ==
    (last_prep.count > 0 /\ ~last_prep.raised) =>
        /\ Range(needed_outputs["B"]) =
              {<<edge[2], edge[3], edge[1]>> : edge \in Range(connected_var["B"])}
        /\ Len(needed_outputs["B"]) = Len(connected_var["B"])

\* --------------------------------------------- claims: SpecOut, continued

C30_ResultReturns ==
    output["A"].ret = "ok" =>
        /\ result("A").ret = "ok"
        /\ Len(output["A"].value) = 1 =>
              result("A").value = _state_dict_to_list(output["A"].value)

\* --------------------------------------------- claims: SpecSave, continued

\* C28 (as claimed): when no save or record_error call is in progress, no
\* directory holds both a _result file and an _error file.
C28_ResultXorError ==
    (\A p \in Procs : pc[p] = "idle") =>
        \A path \in Paths :
            ~(fs[path].files[RESULT].exists /\ fs[path].files[ERROR].exists)

\* ---------------------------------------------------------- SpecScript

MaxScripts == 2

\* a create_pyscript that looks only for the presence of the task file
CreatePyscriptNoSizeTest(script_path, checksum, rerun) ==
    IF ~fs[script_path].files[TASK].exists
    THEN [scripts |-> scripts, ret |-> "Exception"]
    ELSE [scripts |-> [scripts EXCEPT ![<<script_path, checksum>>] =
                          IF rerun THEN "rerun=True" ELSE "rerun=False"],
          ret |-> "ok"]

\* helpers.py create_pyscript(script_path, checksum, rerun), lines 351-391
create_pyscript(script_path, checksum, rerun) ==
    LET task_pkl == fs[script_path].files[TASK]
    IN  IF ~task_pkl.exists \/ Len(task_pkl.bytes) = 0
        THEN [scripts |-> scripts, ret |-> "Exception"]
        ELSE [scripts |-> [scripts EXCEPT ![<<script_path, checksum>>] =
                              IF rerun THEN "rerun=True" ELSE "rerun=False"],
              ret |-> "ok"]

CreatePyscript(script_path, checksum, rerun) ==
    LET r == create_pyscript(script_path, checksum, rerun)
    IN  /\ scripts' = r.scripts
        /\ last_script' = [seq |-> last_script.seq + 1, script_path |-> script_path,
                           checksum |-> checksum, ret |-> r.ret]
        /\ UNCHANGED <<cacheVars, runVars, inputs, state_inputs, splitter, combiner,
                       connected_var, needed_outputs, ready2run_attr, is_complete,
                       results_dict, split_arg, last_combine, last_prep, output,
                       run_order, node_names, graph, needed_inp_wf, wf_output_names,
                       wf_output, last_add, sumVars, nameVars, splitNodeVars, doneVars>>

\* an element directory: missing, with a task file just opened for writing,
\* or with a task snapshot
TaskOpenedDir ==
    [exists |-> TRUE,
     files |-> [f \in FileNames |->
                  IF f = TASK THEN [exists |-> TRUE, bytes |-> <<>>] ELSE NoFile]]
TaskSavedDir ==
    [exists |-> TRUE,
     files |-> [f \in FileNames |->
                  IF f = TASK THEN [exists |-> TRUE, bytes |-> <<Chunk(TaskObj, 1)>>]
                  ELSE NoFile]]

ScriptInit ==
    /\ NodesUnused
    /\ fs \in [Paths -> {EmptyDir, [EmptyDir EXCEPT !.exists = TRUE],
                         TaskOpenedDir, TaskSavedDir}]
    /\ pc = [p \in Procs |-> "idle"]
    /\ call = [p \in Procs |-> NoCall]
    /\ off = [p \in Procs |-> 0]
    /\ written = [p \in Procs |-> <<>>]
    /\ ret = [p \in Procs |-> None]
    /\ loaded = NoLoad
    /\ ncalls = 0
    /\ run = [p \in Procs |-> NoRun]
    /\ lock = [path \in Paths |-> Free]
    /\ nruns = 0

StepCreatePyscript ==
    /\ last_script.seq < MaxScripts
    /\ \E script_path \in Paths, checksum \in Checksums, rerun \in BOOLEAN :
           CreatePyscript(script_path, checksum, rerun)
ScriptNext == StepCreatePyscript
SpecScript == ScriptInit /\ [][ScriptNext]_vars


\* ------------------------------------------------------------ SpecName

\* qualified variable names node.field, as sequences of characters: plain,
\* with an underscore in the field name, with an underscore in the node name
VarNames ==
    {<<"A", ".", "a">>, <<"A", ".", "b">>, <<"A", ".", "a", "_", "b">>,
     <<"A", "_", "B", ".", "a">>}
MaxVal == 10
Digits == <<"0", "1", "2", "3", "4", "5", "6", "7", "8", "9">>
\* str(j) of an integer 0 <= j < 100
str(j) ==
    IF j < 10 THEN <<Digits[j + 1]>> ELSE <<Digits[(j \div 10) + 1], Digits[(j % 10) + 1]>>
\* a value of a state dictionary: an integer, or a string float() does not take
IntVal(j) == <<"int", j, <<>>>>
StrVal(chars) == <<"str", 0, chars>>
\* the state dictionaries: up to two distinct names, integer values
StateDicts ==
    {<<>>} \cup {<< <<k, IntVal(j)>> >> : k \in VarNames, j \in {0, 1, MaxVal}}
           \cup {<< <<k[1], IntVal(1)>>, <<k[2], IntVal(j)>> >> :
                     k \in {kk \in VarNames \X VarNames : kk[1] # kk[2]},
                     j \in {0, 1, MaxVal}}

\* sep.join(strs)
RECURSIVE join(_, _)
join(sep, strs) ==
    IF strs = <<>> THEN <<>>
    ELSE IF Len(strs) = 1 THEN strs[1]
    ELSE strs[1] \o sep \o join(sep, Tail(strs))

\* s.split(sep) for a separator of one character
str_split(s, sep) ==
    LET at == SelectSeq([i \in 1..Len(s) |-> i], LAMBDA i : s[i] = sep)
        n == Len(at)
        bound(k) == IF k = 0 THEN 0 ELSE IF k = n + 1 THEN Len(s) + 1 ELSE at[k]
    IN  [k \in 1..(n + 1) |-> SubSeq(s, bound(k - 1) + 1, bound(k) - 1)]

\* _directory_name_state_surv, lines 379-380: "_".join of "{}:{}".format(i, j)
dir_nm_el_of(state_surv_dict) ==
    join(<<"_">>, [i \in 1..Len(state_surv_dict) |->
                      state_surv_dict[i][1] \o <<":">> \o str(state_surv_dict[i][2][2])])

\* _state_str_to_dict, lines 423-428: float(val), and int(val) when it is
\* whole; a string float() does not take stays as it is
number(chars) ==
    IF chars # <<>> /\ \A i \in 1..Len(chars) : chars[i] \in Range(Digits)
    THEN LET digit(c) == (CHOOSE d \in 1..10 : Digits[d] = c) - 1
         IN  IntVal(IF Len(chars) = 1 THEN digit(chars[1])
                    ELSE 10 * digit(chars[1]) + digit(chars[2]))
    ELSE StrVal(chars)

\* val_dict[key] = val
dict_put(val_dict, key, val) ==
    IF \E i \in 1..Len(val_dict) : val_dict[i][1] = key
    THEN [i \in 1..Len(val_dict) |->
             IF val_dict[i][1] = key THEN <<key, val>> ELSE val_dict[i]]
    ELSE Append(val_dict, <<key, val>>)

\* _state_str_to_dict, lines 420-429: the loop over val_el[0].split("_") from
\* position i; the unpacking of val_str.split(":") raises ValueError unless
\* it has two parts
RECURSIVE parse_from(_, _, _)
parse_from(strs, i, val_dict) ==
    IF i > Len(strs) THEN [ret |-> "ok", value |-> val_dict]
    ELSE IF strs[i] = <<>> THEN parse_from(strs, i + 1, val_dict)
    ELSE LET kv == str_split(strs[i], ":")
         IN  IF Len(kv) # 2 THEN [ret |-> "ValueError", value |-> <<>>]
             ELSE parse_from(strs, i + 1, dict_put(val_dict, kv[1], number(kv[2])))

\* NodeBase._state_str_to_dict, lines 413-432, for one directory name
_state_str_to_dict(name) ==
    parse_from(str_split(name, "_"), 1, <<>>)

DirectoryName ==
    /\ name_str = NoName
    /\ name_str' = [built |-> TRUE, str |-> dir_nm_el_of(name_dict)]
    /\ UNCHANGED <<name_dict, name_parsed>>
    /\ UNCHANGED <<cacheVars, runVars, inputs, state_inputs, splitter, combiner,
                   connected_var, needed_outputs, ready2run_attr, is_complete,
                   results_dict, split_arg, last_combine, last_prep, output,
                   run_order, node_names, graph, needed_inp_wf, wf_output_names,
                   wf_output, last_add, sumVars, scriptVars, splitNodeVars, doneVars>>

StateStrToDict ==
    /\ name_str.built
    /\ name_parsed = NotParsed
    /\ name_parsed' = _state_str_to_dict(name_str.str)
    /\ UNCHANGED <<name_dict, name_str>>
    /\ UNCHANGED <<cacheVars, runVars, inputs, state_inputs, splitter, combiner,
                   connected_var, needed_outputs, ready2run_attr, is_complete,
                   results_dict, split_arg, last_combine, last_prep, output,
                   run_order, node_names, graph, needed_inp_wf, wf_output_names,
                   wf_output, last_add, sumVars, scriptVars, splitNodeVars, doneVars>>

NameInit ==
    /\ name_dict \in StateDicts
    /\ name_str = NoName
    /\ name_parsed = NotParsed
    /\ scripts = [k \in Paths \X Checksums |-> NoScript]
    /\ last_script = NoPyscript
    /\ class_name = [n \in Nodes |-> <<"N">>]
    /\ inputs_hash = [n \in Nodes |-> <<"a">>]
    /\ node_checksum = [n \in Nodes |-> NoChecksum]
    /\ inputs = [k \in Keys |-> <<1>>]
    /\ state_inputs = [n \in Nodes |-> {}]
    /\ splitter = [n \in Nodes |-> NoSplitter]
    /\ combiner = [n \in Nodes |-> <<>>]
    /\ connected_var = [n \in Nodes |-> <<>>]
    /\ needed_outputs = [n \in Nodes |-> <<>>]
    /\ ready2run_attr = [n \in Nodes |-> "method"]
    /\ is_complete = [n \in Nodes |-> FALSE]
    /\ results_dict = [n \in Nodes |-> {}]
    /\ split_arg = [n \in Nodes |-> NoSplitter]
    /\ last_combine = NoCombine
    /\ last_prep = NoPrep
    /\ output = [n \in Nodes |-> NoOutput]
    /\ run_order = <<>>
    /\ node_names = Nodes
    /\ graph = {}
    /\ needed_inp_wf = <<>>
    /\ wf_output_names = <<>>
    /\ wf_output = NoWfOutput
    /\ last_add = NoAdd
    /\ SplitNodeUnused
    /\ WfUnchecked
    /\ fs = [path \in Paths |-> EmptyDir]
    /\ pc = [p \in Procs |-> "idle"]
    /\ call = [p \in Procs |-> NoCall]
    /\ off = [p \in Procs |-> 0]
    /\ written = [p \in Procs |-> <<>>]
    /\ ret = [p \in Procs |-> None]
    /\ loaded = NoLoad
    /\ ncalls = 0
    /\ run = [p \in Procs |-> NoRun]
    /\ lock = [path \in Paths |-> Free]
    /\ nruns = 0

NameNext == DirectoryName \/ StateStrToDict
SpecName == NameInit /\ [][NameNext]_vars


\* ------------------------------------------------------------ SpecDone

MaxChecks == 2

\* the property is_complete of a child, lines 386-392: the flag once it is
\* set, _check_all_results before
is_complete_property(n) ==
    IF is_complete[n] THEN "True" ELSE _check_all_results(n)

\* a check that looks at the child and not at its clones
ChildOutcomeIgnoringClones(n) ==
    is_complete_property(n)

\* Workflow._check_all_results, lines 692-697: what the loop finds for one
\* child; all([...]) reads is_complete of every clone before it decides
child_outcome(n) ==
    IF inner_nodes[n].present
    THEN LET clones == inner_nodes[n].clones
             raising == {i \in 1..Len(clones) : clones[i] \notin {"True", "False"}}
         IN  IF raising # {} THEN clones[CHOOSE i \in raising : \A k \in raising : i <= k]
             ELSE IF \A i \in 1..Len(clones) : clones[i] = "True" THEN "True"
             ELSE "False"
    ELSE is_complete_property(n)

\* Workflow._check_all_results, lines 689-699: the children in the order of
\* the graph up to the first that is not complete
wf_check_all_results ==
    LET stops == {i \in 1..Len(graph_sorted) : child_outcome(graph_sorted[i]) # "True"}
        stop == IF stops = {} THEN Len(graph_sorted) + 1
                ELSE CHOOSE i \in stops : \A k \in stops : i <= k
        read == {graph_sorted[i] : i \in {k \in 1..Len(graph_sorted) :
                     k <= stop /\ ~inner_nodes[graph_sorted[k]].present
                     /\ ~is_complete[graph_sorted[k]]}}
    IN  [ret |-> IF stops = {} THEN "True" ELSE child_outcome(graph_sorted[stop]),
         read |-> read]

WfCheckAllResults ==
    LET r == wf_check_all_results
    IN  /\ wf_is_complete' = (wf_is_complete \/ r.ret = "True")
        /\ is_complete' = [n \in Nodes |->
                              is_complete[n] \/
                                  (n \in r.read /\ _check_all_results(n) = "True")]
        /\ splitter' = [m \in Nodes |->
                           IF \E n \in r.read : m = n \/ m \in upstream_nodes(n)
                           THEN state_splitter(m) ELSE splitter[m]]
        /\ last_wf_check' = [seq |-> last_wf_check.seq + 1, ret |-> r.ret]
        /\ UNCHANGED <<inputs, state_inputs, combiner, connected_var, needed_outputs,
                       ready2run_attr, results_dict, split_arg, last_combine,
                       last_prep, output, run_order, node_names, graph, needed_inp_wf,
                       wf_output_names, wf_output, last_add, inner_nodes>>
        /\ UNCHANGED <<cacheVars, runVars, sumVars, scriptVars, nameVars, splitNodeVars>>

\* what is_complete gives on the clones of a child of a workflow with a
\* splitter, one clone per element of the workflow
CloneLists ==
    {<<>>, <<"True">>, <<"True", "True">>, <<"True", "False">>, <<"KeyError", "True">>}

\* a workflow of A, split over a, and B, which reads A.out; B may have clones
DoneInit ==
    /\ inputs \in [Keys -> InputSeqs \cup {Unbound}]
    /\ inputs[<<"A", "a">>] # Unbound
    /\ inputs[<<"A", "b">>] = Unbound
    /\ inputs[<<"W", "w">>] = Unbound
    /\ state_inputs = [n \in Nodes |-> IF n = "A" THEN {<<"A", "a">>} ELSE {}]
    /\ splitter = [n \in Nodes |->
                      IF n = "A" THEN LeafSplitter(<<"A", "a">>) ELSE NoSplitter]
    /\ combiner = [n \in Nodes |-> <<>>]
    /\ connected_var = [n \in Nodes |->
                           IF n = "B" THEN << <<"x", "A", "out">> >> ELSE <<>>]
    /\ needed_outputs = [n \in Nodes |-> <<>>]
    /\ ready2run_attr = [n \in Nodes |-> "method"]
    /\ is_complete = [n \in Nodes |-> FALSE]
    /\ results_dict = [n \in Nodes |-> {}]
    /\ split_arg = [n \in Nodes |-> splitter[n]]
    /\ last_combine = NoCombine
    /\ last_prep = NoPrep
    /\ output = [n \in Nodes |-> NoOutput]
    /\ run_order = <<>>
    /\ node_names = {"A", "B"}
    /\ graph = {<<"A", "B">>}
    /\ needed_inp_wf = <<>>
    /\ wf_output_names = <<>>
    /\ wf_output = NoWfOutput
    /\ last_add = NoAdd
    /\ SplitNodeUnused
    /\ wf_is_complete = FALSE
    /\ inner_nodes \in {[n \in Nodes |-> IF n = "B" THEN c ELSE NoClones] :
                           c \in {NoClones} \cup
                                 {[present |-> TRUE, clones |-> l] : l \in CloneLists}}
    /\ last_wf_check = NoWfCheck
    /\ NamesUnused
    /\ scripts = [k \in Paths \X Checksums |-> NoScript]
    /\ last_script = NoPyscript
    /\ class_name = [n \in Nodes |-> <<"N">>]
    /\ inputs_hash = [n \in Nodes |-> <<"a">>]
    /\ node_checksum = [n \in Nodes |-> NoChecksum]
    /\ fs = [path \in Paths |-> EmptyDir]
    /\ pc = [p \in Procs |-> "idle"]
    /\ call = [p \in Procs |-> NoCall]
    /\ off = [p \in Procs |-> 0]
    /\ written = [p \in Procs |-> <<>>]
    /\ ret = [p \in Procs |-> None]
    /\ loaded = NoLoad
    /\ ncalls = 0
    /\ run = [p \in Procs |-> NoRun]
    /\ lock = [path \in Paths |-> Free]
    /\ nruns = 0

\* the workflow is prepared once, its elements run, and it is asked whether
\* it is complete
StepPreparingDone ==
    /\ last_prep = NoPrep
    /\ Preparing({})
StepRunDone ==
    /\ last_prep # NoPrep
    /\ \E n \in {"A", "B"} : \E ind \in all_elements(n) : \E out \in {0, 1} :
          RunEl(n, ind, out) /\ UNCHANGED run_order
StepWfCheckAllResults ==
    /\ last_wf_check.seq < MaxChecks
    /\ WfCheckAllResults
DoneNext ==
    \/ StepPreparingDone
    \/ StepRunDone
    \/ StepWfCheckAllResults
SpecDone == DoneInit /\ [][DoneNext]_vars


\* ------------------------------------------------------- claims: SpecWf

\* an add call has just been made
AddCalled == last_add'.seq # last_add.seq
\* a preparing call has just been made
PreparingCalled == last_prep'.count # last_prep.count

\* C22 (as claimed): add returns normally, and its edge keyword is recorded
\* once: a source "node.field" as an entry of connected_var of the new node
\* and an edge of the graph and not in needed_inp_wf, any other source as one
\* new entry of needed_inp_wf and not in connected_var.
C22_AddRecordsEveryEdge ==
    [][AddCalled =>
          LET n == last_add'.node
              kwargs == last_add'.kwargs
          IN  /\ last_add'.raised = ""
              /\ n \in node_names'
              /\ \A i \in 1..Len(kwargs) :
                    LET inp == kwargs[i][1]
                        source == kwargs[i][2]
                    IN  IF Len(source) = 2
                        THEN /\ connected_var'[n] = << <<inp, source[1], source[2]>> >>
                             /\ <<source[1], n>> \in graph'
                             /\ needed_inp_wf' = needed_inp_wf
                        ELSE /\ needed_inp_wf' = Append(needed_inp_wf, <<n, source, inp>>)
                             /\ connected_var'[n] = <<>>]_vars

\* C23 (as claimed): the graph has an edge from_node -> to_node exactly when
\* an entry of connected_var[to_node] names from_node as its source.
C23_EdgeIffConnectedVar ==
    \A from_node \in Nodes : \A to_node \in Nodes :
        <<from_node, to_node>> \in graph <=>
            \E i \in 1..Len(connected_var[to_node]) :
                connected_var[to_node][i][2] = from_node

\* C24: a preparing call on a workflow one of whose needed_inp_wf entries
\* names a field that is not among the workflow inputs raises, and prepares
\* no child: needed_outputs, splitters, completion flags and results stay as
\* they were.
C24_UnresolvedInputAborts ==
    [][(/\ PreparingCalled
        /\ \E i \in 1..Len(needed_inp_wf) :
              needed_inp_wf[i][2] \notin last_prep'.wf_inputs) =>
          /\ last_prep'.raised
          /\ needed_outputs' = needed_outputs
          /\ splitter' = splitter
          /\ ready2run_attr' = ready2run_attr
          /\ is_complete' = is_complete
          /\ results_dict' = results_dict]_vars

\* C24 witness: preparing has raised for a missing workflow input on a
\* workflow in which B is connected to A, and B has no needed_outputs.
C24_Witness ==
    /\ last_prep.raised /\ last_prep.cause = "not in the workflow inputs"
    /\ last_prep.wf_inputs = {}
    /\ needed_inp_wf = << <<"A", <<"wfa">>, "a">> >>
    /\ connected_var["B"] = << <<"x", "A", "out">> >>
    /\ needed_outputs["B"] = <<>>

\* two entries of wf_output_names expose the same name
DuplicateOutputName ==
    \E i \in 1..Len(wf_output_names) : \E j \in 1..Len(wf_output_names) :
        i # j /\ wf_output_names[i][3] = wf_output_names[j][3]

\* C25 (as claimed): preparing rejects a workflow two of whose
\* wf_output_names entries expose the same name.
C25_DuplicateOutputRejected ==
    [][(PreparingCalled /\ DuplicateOutputName) => last_prep'.raised]_vars

\* ------------------------------------------------------ claims: SpecSum

\* C29: a checksum that was read is the class name, an underscore and the
\* input hash of its node, and the checksums of two nodes are equal exactly
\* when the nodes have the same class name and the same input hash.
C29_ChecksumOfClassAndHash ==
    \A n \in {"A", "B"} : \A m \in {"A", "B"} :
        (node_checksum[n] # NoChecksum /\ node_checksum[m] # NoChecksum) =>
            /\ node_checksum[n] = class_name[n] \o <<"_">> \o inputs_hash[n]
            /\ node_checksum[n] = node_checksum[m] <=>
                   (class_name[n] = class_name[m] /\ inputs_hash[n] = inputs_hash[m])

\* C29 witness: both checksums were read, of nodes whose class names and
\* hashes differ and give the same string when they are written side by side
C29_Witness ==
    /\ class_name["A"] = <<"N", "a">> /\ inputs_hash["A"] = <<"a">>
    /\ class_name["B"] = <<"N">> /\ inputs_hash["B"] = <<"a", "a">>
    /\ node_checksum["A"] = <<"N", "a", "_", "a">>
    /\ node_checksum["B"] = <<"N", "_", "a", "a">>

\* ------------------------------------------- claims: SpecSave, continued 2

\* the files a save call is given something for, in the order it writes them
GivenFiles(c) ==
    (IF c.result # None THEN <<RESULT>> ELSE <<>>) \o
    (IF c.task # None THEN <<TASK>> ELSE <<>>)

\* C35: a save call with neither a task nor a result raises ValueError and
\* changes nothing in the file system; every other save call makes its
\* directory and writes only the files of the arguments it was given, all of
\* them once it has returned.
C35_SaveWritesWhatItIsGiven ==
    [][/\ (ncalls' # ncalls /\ pc' = pc) => fs' = fs
       /\ \A p \in Procs :
            call'[p].op = "save" =>
                IF call'[p].task = None /\ call'[p].result = None
                THEN ret'[p] = ValueError /\ pc'[p] = "idle" /\ written'[p] = <<>>
                ELSE /\ fs'[call'[p].path].exists
                     /\ Range(written'[p]) \subseteq Range(GivenFiles(call'[p]))
                     /\ pc'[p] = "idle" =>
                            ret'[p] = None /\ written'[p] = GivenFiles(call'[p])]_vars

\* C35 witness: one save with nothing to save has raised and its directory
\* does not exist, another with a result only has returned and its directory
\* holds the result file and no task file
C35_Witness ==
    /\ call["p1"].op = "save" /\ call["p1"].task = None /\ call["p1"].result = None
    /\ ret["p1"] = ValueError
    /\ ~fs[call["p1"].path].exists
    /\ call["p2"].op = "save" /\ call["p2"].task = None /\ call["p2"].result # None
    /\ pc["p2"] = "idle" /\ ret["p2"] = None
    /\ fs[call["p2"].path].files[RESULT].exists
    /\ ~fs[call["p2"].path].files[TASK].exists

\* --------------------------------------------------- claims: SpecScript

\* C37: a create_pyscript call on a directory whose _task file is missing or
\* has size zero raises and writes no script; any other call returns and
\* writes the script named after its checksum in that directory and no other
\* file.
C37_ScriptNeedsTask ==
    [][last_script'.seq # last_script.seq =>
          LET script_path == last_script'.script_path
              checksum == last_script'.checksum
              task_pkl == fs[script_path].files[TASK]
          IN  IF ~task_pkl.exists \/ task_pkl.bytes = <<>>
              THEN last_script'.ret = "Exception" /\ scripts' = scripts
              ELSE /\ last_script'.ret = "ok"
                   /\ scripts'[<<script_path, checksum>>] # NoScript
                   /\ \A k \in DOMAIN scripts :
                         k # <<script_path, checksum>> => scripts'[k] = scripts[k]]_vars

\* C37 witness: a call on a directory whose task file exists and is empty
\* has raised, after a call on a directory with a task snapshot wrote a script
C37_Witness ==
    /\ last_script.seq = 2 /\ last_script.ret = "Exception"
    /\ fs[last_script.script_path].files[TASK].exists
    /\ fs[last_script.script_path].files[TASK].bytes = <<>>
    /\ \A k \in DOMAIN scripts : k[1] = last_script.script_path => scripts[k] = NoScript
    /\ \E k \in DOMAIN scripts : scripts[k] # NoScript

\* ----------------------------------------------------- claims: SpecName

\* C36 (as claimed): parsing the directory name built from a state
\* dictionary succeeds and gives the dictionary back.
C36_ParseInvertsNaming ==
    name_parsed # NotParsed => (name_parsed.ret = "ok" /\ name_parsed.value = name_dict)

\* ------------------------------------------- claims: SpecNode, continued 2

\* the elements checking_input_el is asked about: those of a node with a
\* state, and any index of a node whose state was not prepared
CheckedElements ==
    {e \in NodeElements : state_is_none(e[1]) \/ e[2] \in all_elements(e[1])}

\* C33: checking_input_el returns for every element: True when get_input_el
\* returns, False when get_input_el raises, whatever it raises.
C33_CheckingInputElNeverRaises ==
    \A e \in CheckedElements :
        /\ checking_input_el(e[1], e[2]) \in {"True", "False"}
        /\ checking_input_el(e[1], e[2]) = "True" <=> BodyStarts(e)

\* C33 witness: for one element of B get_input_el raises the KeyError of a
\* missing upstream result, and for another it raises the Exception of an
\* upstream output that is there and falsy
C33_Witness ==
    /\ ~state_is_none("B")
    /\ \E ind \in all_elements("B") :
          get_input_el("B", ind).status = "KeyError" /\ checking_input_el("B", ind) = "False"
    /\ \E ind \in all_elements("B") :
          get_input_el("B", ind).status = "Exception" /\ checking_input_el("B", ind) = "False"

\* ----------------------------------------------- claims: SpecWf, continued

\* C31 (as claimed): a split_node call on a child that has a splitter raises
\* and changes neither the splitters nor _node_splitters; a call on a child
\* without one sets the splitter of that child and records it; and after the
\* call, raised or not, a splitter of the child has its _node_splitters entry.
C31_SplitNodeRecordsSplitter ==
    [][(last_split_node'.seq # last_split_node.seq /\ last_split_node'.node # "") =>
          LET n == last_split_node'.node
          IN  /\ IF splitter[n] # NoSplitter
                 THEN /\ last_split_node'.raised = "Exception"
                      /\ splitter' = splitter
                      /\ node_splitters' = node_splitters
                 ELSE /\ last_split_node'.raised = ""
                      /\ splitter'[n] # NoSplitter
              /\ splitter'[n] # NoSplitter => node_splitters'[n] = splitter'[n]]_vars

\* ----------------------------------------------------- claims: SpecDone

\* a child is complete: each of its clones if it has clones, the child
\* itself otherwise
ChildComplete(n) ==
    IF inner_nodes[n].present
    THEN \A i \in 1..Len(inner_nodes[n].clones) : inner_nodes[n].clones[i] = "True"
    ELSE IsCompleteNow(n)

\* the element has finished: its result is stored under its directory name
ElementFinished(n, ind) ==
    \E r \in results_dict[n] :
        r[1] = _directory_name_state_surv(n, state_values(n, ind))

\* C32: a _check_all_results call of the workflow returns True exactly when
\* every child in the graph is complete, a child with clones counting by its
\* clones; it marks the workflow complete exactly when it returns True; and
\* a workflow it marks complete has no child element without a stored result.
C32_WfCompleteIffChildrenComplete ==
    [][last_wf_check'.seq # last_wf_check.seq =>
          /\ last_wf_check'.ret = "True" <=> \A n \in node_names : ChildComplete(n)
          /\ wf_is_complete' = (wf_is_complete \/ last_wf_check'.ret = "True")
          /\ (wf_is_complete' /\ ~wf_is_complete) =>
                \A n \in {m \in node_names : ~inner_nodes[m].present} :
                    \A ind \in all_elements(n) : ElementFinished(n, ind)]_vars

\* C32 witness: the workflow is marked complete with every element of A and
\* B stored, and a check on a workflow whose child B has an incomplete clone
\* is reachable as well (the two cases are told apart by inner_nodes)
C32_Witness ==
    /\ wf_is_complete
    /\ last_wf_check.ret = "True"
    /\ ~inner_nodes["B"].present
    /\ Len(inputs[<<"A", "a">>]) = 2
    /\ is_complete["A"] /\ is_complete["B"]

\* ------------------------------------------------ claims: repeated calls

\* C34: once get_output of a workflow with wf_output_names has succeeded, a
\* further call succeeds and leaves _output as the first call left it, and
\* the output it collected from each child stays the same as well.
C34_GetOutputRepeatable ==
    [][(wf_output.ret = "ok" /\ wf_output_names # <<>>) =>
          /\ wf_output' = wf_output
          /\ \A n \in node_names : output[n].ret = "ok" => output'[n] = output[n]]_vars

====
